---- MODULE Spec2Model ----
(***************************************************************************)
(* Dataset execution and scheduling engine of the QBO Sheets connector.    *)
(*                                                                         *)
(* Two concurrent executions (UI calls, trigger fires) act on the user     *)
(* property store, the host trigger set, the user lock and the target      *)
(* sheet.  Every step is one phase of a handler between two host calls     *)
(* another execution can interleave with.                                  *)
(*                                                                         *)
(* Spec          : manual runs against edits and deletions of the dataset  *)
(* SpecSched     : trigger fires, schedule edits and trigger maintenance   *)
(* SpecLock      : overlapping trigger fires under the user lock           *)
(* SpecEnable    : createScheduleTrigger calls and trigger maintenance     *)
(* SpecRace      : manual runs against trigger fires for the same dataset  *)
(* SpecRefresh   : 'Refresh All Datasets' against deletions of datasets    *)
(* SpecWrite     : manual runs over every shape of conversion result       *)
(* SpecStale     : manual runs one after the other, with host calls that   *)
(*                 may fail after the write                                *)
(* SpecStore     : createDataset and updateDataset with any schedule       *)
(* SpecIndex     : createDataset and deleteDataset as separate executions  *)
(* SpecFire      : trigger fires with and without a trigger id against     *)
(*                 createScheduleTrigger calls                             *)
(* SpecSeq       : calls of the dataset and scheduler functions made one   *)
(*                 after the other                                         *)
(* SpecPage      : one runCustomQuery call, page by page                   *)
(* SpecServer    : one runCustomQuery call against a server that answers   *)
(*                 anything                                                *)
(* SpecHash      : the schemaHash of two successive successful runs        *)
(* SpecRetry     : one logical HTTP request through fetchWithRetry or      *)
(*                 qboFetch_ against an arbitrary sequence of responses    *)
(* SpecRetryLive : SpecRetry with the request kept executing               *)
(* SpecTrace     : SpecRetry with the responses and sleeps recorded        *)
(***************************************************************************)
EXTENDS Integers, Sequences, FiniteSets, TLC

\* ---------------------------------------------------------------- bounds
NumDatasets == 2
MaxNewTriggers == 4
MaxJobs == 2
MaxOps == 3
MaxSchedOps == 4
MaxLockOps == 2
MaxEnableOps == 4
MaxRows == 3
MaxWriteOps == 2
MaxSeqOps == 3
MaxCols == 1
MaxTotal == 4
MaxStart == 2
MaxPageSize == 2
MaxPages == 3
MaxRaceOps == 2
MaxStoreOps == 2
MaxHeaderLen == 3
MaxRefreshOps == 2
MaxEcho == 3
MaxStaleOps == 2
MaxIndexOps == 2
MaxFireOps == 3

Procs == {"A", "B"}
DatasetIds == 1..NumDatasets
TriggerIds == 1..(NumDatasets + MaxNewTriggers)
JobIds == 1..MaxJobs

\* the configured hard cell ceiling; the largest table of the model exceeds it
maxCellsHard == MaxRows * MaxCols - 1

VARIABLES
  ds,        \* dataset_<id> properties
  idx,       \* datasets_index property
  fwd,       \* QBO_Dataset_<id> properties: dataset id -> trigger id (0: absent)
  rev,       \* trigger_<id> properties: trigger id -> dataset id (0: absent)
  triggers,  \* live scheduledDatasetRun triggers of the host
  recurrence, \* the recurrence each live trigger was built with
  nextTrig,  \* next unique id the host hands out
  lock,      \* holder of LockService.getUserLock(), or "free"
  jobs,      \* job_<id> properties
  nextJob,   \* next job id (Utilities.getUuid)
  sheet,     \* TRUE when the target sheet exists in the document
  cells,     \* contents of the target sheet from its anchor cell
  named,     \* the named range of target.namedRange: its rows and columns
             \* from the anchor cell (0 x 0: there is no such named range)
  pc,        \* position of each execution
  loc,       \* local variables of each execution
  ops,       \* executions that may still start
  succ,      \* history: createScheduleTrigger calls made one after the other
  rq,        \* the logical HTTP request of SpecRetry
  pq,        \* the runCustomQuery call of SpecPage
  hist,      \* SpecTrace: what the logical HTTP request has met so far
  sh,        \* SpecHash: the sheet data and schemaHash of two successive runs
  refresh    \* the refreshJob_<id> property of a 'Refresh All Datasets' request

vars == <<ds, idx, fwd, rev, triggers, recurrence, nextTrig, lock, jobs, nextJob, sheet, cells, named, pc, loc, ops,
          succ, rq, pq, hist, sh, refresh>>
storeVars == <<ds, idx, fwd, rev, triggers, recurrence, nextTrig, lock, jobs, nextJob, sheet, cells, named>>

\* ------------------------------------------------------------ data model
Grid == (1..MaxRows) \X (1..MaxCols)

NoWrite == [valid |-> FALSE, rows |-> 0, cols |-> 0, rr |-> 0, rc |-> 0]
\* schedule.freq and schedule.timeOfDay of a record ("absent": not given)
Schedules == [freq : {"hourly", "daily", "yearly"}, timeOfDay : {"absent", "09:00"}]
NoSchedule == [freq |-> "absent", timeOfDay |-> "absent"]
\* the schedule createDataset fills in when none is given
DefaultSchedule == [freq |-> "daily", timeOfDay |-> "09:00"]
\* what the trigger builder is given: everyHours(1), or everyDays(1) at the
\* hour of timeOfDay (9 for '09:00')
NoRecurrence == [freq |-> "none", hour |-> 0]
Recurrence(schedule) == [freq |-> schedule.freq, hour |-> IF schedule.freq = "hourly" THEN 0 ELSE 9]
NoDataset == [exists |-> FALSE, enabled |-> FALSE, version |-> 0, sheetId |-> 0, lastWrite |-> NoWrite,
              schedule |-> NoSchedule]
NoJob == [exists |-> FALSE, datasetId |-> 0, status |-> "none", progress |-> 0]
\* no refreshJob_<id> property is stored
NoRefresh == [exists |-> FALSE, jobs |-> <<>>, status |-> "none"]
\* A conversion result (sheetData): rows is data.length, cols the length of
\* the first row (0 when there is none), ragged says that a later row has
\* another length than the first.
NoTable == [rows |-> 0, cols |-> 0, ok |-> FALSE, ragged |-> FALSE]
Tables ==
  {[rows |-> r, cols |-> c, ok |-> TRUE, ragged |-> FALSE] : r \in 1..MaxRows, c \in 1..MaxCols}
    \cup {[rows |-> 0, cols |-> 0, ok |-> TRUE, ragged |-> FALSE]}
\* every shape the two conversions can return: also rows without columns
\* (no Columns in the report, entities without keys) and a title row that is
\* shorter or longer than the rows under it
SheetDatas ==
  Tables
    \cup {[rows |-> r, cols |-> 0, ok |-> TRUE, ragged |-> FALSE] : r \in 1..MaxRows}
    \cup {[rows |-> r, cols |-> c, ok |-> TRUE, ragged |-> TRUE] : r \in 2..MaxRows, c \in 1..MaxCols}
NoWriteResult == [rows |-> 0, cols |-> 0, rr |-> 0, rc |-> 0]
NoNamedRange == [rr |-> 0, rc |-> 0]

Loc0 ==
  [op |-> "none", from |-> "none", d |-> 0, t |-> 0, newt |-> 0, want |-> FALSE,
   sched |-> DefaultSchedule,
   existing |-> NoDataset, dataset |-> NoDataset, job |-> 0, jobObj |-> NoJob,
   table |-> NoTable, lastWrite |-> NoWrite, newSheetId |-> 0,
   writeResult |-> NoWriteResult, wroteCells |-> {},
   result |-> "none", err |-> FALSE,
   ranRunDataset |-> FALSE, createdSheet |-> FALSE, touchedCells |-> FALSE, touchedDs |-> FALSE,
   removed |-> 0, repaired |-> 0, rjobs |-> <<>>, ri |-> 0, datasetIds |-> <<>>]

Succ0 == [phase |-> "none", p |-> "none", d |-> 0, t1 |-> 0, t2 |-> 0]

\* the cells of the rectangle rr x rc at the anchor
Region(rr, rc) == {g \in Grid : g[1] <= rr /\ g[2] <= rc}

\* ------------------------------------------------- scheduler (Scheduler.gs)
\* (variant: the properties are cleaned up but the trigger is left alive)
RemoveKeepsTrigger(S, d) ==
  IF S.fwd[d] = 0 THEN S
  ELSE LET t == S.fwd[d] IN [S EXCEPT !.fwd[d] = 0, !.rev[t] = 0]

\* removeScheduleTrigger: looks the trigger up through QBO_Dataset_<id>
RemoveScheduleTrigger(S, d) ==
  IF S.fwd[d] = 0 THEN S
  ELSE LET t == S.fwd[d] IN
       [S EXCEPT !.triggers = @ \ {t}, !.fwd[d] = 0, !.rev[t] = 0]

\* createScheduleTrigger for an enabled schedule, start to end
CreateScheduleTrigger(S, d) ==
  LET R == RemoveScheduleTrigger(S, d)
      t == R.nextTrig
  IN [R EXCEPT !.triggers = @ \cup {t}, !.nextTrig = t + 1, !.fwd[d] = t,
               !.rev = IF t \in DOMAIN @ THEN [@ EXCEPT ![t] = d] ELSE @]

Sched == [fwd |-> fwd, rev |-> rev, triggers |-> triggers, nextTrig |-> nextTrig, removed |-> 0, repaired |-> 0]

SetSched(S) ==
  /\ fwd' = S.fwd
  /\ rev' = S.rev
  /\ triggers' = S.triggers
  /\ recurrence' = [t \in TriggerIds |->
       IF t \notin S.triggers THEN NoRecurrence
       ELSE IF t \in triggers THEN recurrence[t]
       ELSE IF S.rev[t] = 0 THEN NoRecurrence
       ELSE Recurrence(ds[S.rev[t]].schedule)]
  /\ nextTrig' = S.nextTrig

\* getDatasets: the records of the ids of the index, in index order
RECURSIVE GetDatasets(_, _)
GetDatasets(index, store) ==
  IF index = <<>> THEN <<>>
  ELSE IF store[Head(index)].exists
       THEN <<Head(index)>> \o GetDatasets(Tail(index), store)
       ELSE GetDatasets(Tail(index), store)

\* first loop of cleanupOrphanedTriggers: datasets whose schedule is off
RECURSIVE CleanupDisabled(_, _, _, _)
CleanupDisabled(S, tmap, dsl, store) ==
  IF dsl = <<>> THEN [S |-> S, tmap |-> tmap]
  ELSE LET d == Head(dsl)
           t == S.fwd[d]
       IN IF store[d].enabled \/ t = 0
          THEN CleanupDisabled(S, tmap, Tail(dsl), store)
          ELSE CleanupDisabled(
                 [S EXCEPT !.triggers = @ \ (IF t \in tmap THEN {t} ELSE {}),
                           !.removed = @ + (IF t \in tmap THEN 1 ELSE 0),
                           !.fwd[d] = 0, !.rev[t] = 0],
                 tmap \ {t}, Tail(dsl), store)

\* second loop: live triggers that do not resolve to an enabled dataset
RECURSIVE CleanupUnmapped(_, _, _, _, _)
CleanupUnmapped(S, tmap, todo, dsl, store) ==
  IF todo = {} THEN [S |-> S, tmap |-> tmap]
  ELSE LET t == CHOOSE x \in todo : \A y \in todo : x <= y
           d == S.rev[t]
           known == d # 0 /\ \E i \in 1..Len(dsl) : dsl[i] = d
       IN IF known /\ store[d].enabled
          THEN CleanupUnmapped(S, tmap, todo \ {t}, dsl, store)
          ELSE CleanupUnmapped(
                 [S EXCEPT !.triggers = @ \ {t}, !.rev[t] = 0,
                           !.fwd = IF d # 0 THEN [@ EXCEPT ![d] = 0] ELSE @,
                           !.removed = @ + 1],
                 tmap \ {t}, todo \ {t}, dsl, store)

\* third loop: enabled datasets whose stored trigger is not live
RECURSIVE CleanupRepair(_, _, _, _)
CleanupRepair(S, tmap, dsl, store) ==
  IF dsl = <<>> THEN S
  ELSE LET d == Head(dsl) IN
       IF ~store[d].enabled \/ (S.fwd[d] # 0 /\ S.fwd[d] \in tmap)
       THEN CleanupRepair(S, tmap, Tail(dsl), store)
       ELSE LET R == CreateScheduleTrigger(S, d) IN
            CleanupRepair([R EXCEPT !.repaired = @ + 1], tmap, Tail(dsl), store)

CleanupOrphanedTriggers(S, index, store) ==
  LET dsl == GetDatasets(index, store)
      a == CleanupDisabled(S, S.triggers, dsl, store)
      b == CleanupUnmapped(a.S, a.tmap, a.tmap, dsl, store)
  IN CleanupRepair(b.S, b.tmap, dsl, store)

\* ------------------------------------------------------------- executions
\* what stays known of an execution once it has ended
Summary(l) ==
  [Loc0 EXCEPT !.op = l.op, !.d = l.d, !.t = l.t, !.newt = l.newt, !.job = l.job,
               !.result = l.result, !.err = l.err, !.ranRunDataset = l.ranRunDataset,
               !.createdSheet = l.createdSheet,
               !.touchedCells = l.touchedCells, !.touchedDs = l.touchedDs,
               !.removed = l.removed, !.repaired = l.repaired]

\* a return made inside testScheduledRun, once the temporary mapping is
\* stored, leads into its finally block
Target(p, where, l) ==
  IF where = "idle" /\ l.op = "testScheduledRun" /\ l.t # 0 /\ pc[p] # "tsr_cleanup"
  THEN "tsr_cleanup" ELSE where

Goto(p, where, l) ==
  /\ pc' = [pc EXCEPT ![p] = Target(p, where, l)]
  /\ loc' = [loc EXCEPT ![p] = IF Target(p, where, l) = "idle" THEN Summary(l) ELSE l]

\* executions that will still ask for a job id
PreJob == {q \in Procs : pc[q] \in {"run_start", "sdr_resolve", "sdr_getds", "sdr_lock", "tsr_get", "tsr_map"}}
JobBudget == nextJob + Cardinality(PreJob) <= MaxJobs

Enter(p, l, where) ==
  /\ pc[p] = "idle"
  /\ ops > 0
  /\ ops' = ops - 1
  /\ Goto(p, where, l)

Begin(p, l, where) ==
  /\ Enter(p, l, where)
  /\ UNCHANGED <<storeVars, refresh, rq, pq, hist, sh>>

InRun(p) == loc[p].op \in {"runDataset", "scheduledDatasetRun", "testScheduledRun", "refreshAllDatasets"}

\* where control goes when runDataset ends, normally or by an exception
AfterRun(p) ==
  IF loc[p].op \in {"scheduledDatasetRun", "testScheduledRun"} THEN "sdr_release"
  ELSE IF loc[p].op = "refreshAllDatasets" THEN "prj_after"
  ELSE "idle"

\* updateJobProgress: read job_<id>, set progress, store it back
UpdateJobProgress(j, progress) ==
  jobs' = IF jobs[j].exists THEN [jobs EXCEPT ![j].progress = progress] ELSE jobs

\* ---- updateDataset (UI call, or the lastWrite update at the end of a run)
StartUpdate(p, d, en) ==
  Begin(p, [Loc0 EXCEPT !.op = "updateDataset", !.d = d, !.want = en], "upd_read")

\* updateDataset with any schedule among the updates
StartUpdateWith(p, d, en, schedule) ==
  Begin(p, [Loc0 EXCEPT !.op = "updateDataset", !.d = d, !.want = en, !.sched = schedule], "upd_read")

UpdRead(p) ==
  /\ pc[p] = "upd_read"
  /\ LET e == ds[loc[p].d] IN
     IF ~e.exists
     THEN IF InRun(p)
          THEN Goto(p, "run_fail", loc[p])
          ELSE Goto(p, "idle", [loc[p] EXCEPT !.result = "threw"])
     ELSE Goto(p, "upd_write", [loc[p] EXCEPT !.existing = e])
  /\ UNCHANGED <<storeVars, refresh, ops, rq, pq, hist, sh>>

Updated(p) ==
  LET e == loc[p].existing
      v == (IF e.version = 0 THEN 1 ELSE e.version) + 1
  IN IF InRun(p)
     THEN [e EXCEPT !.version = v, !.lastWrite = loc[p].lastWrite,
                    !.sheetId = IF loc[p].newSheetId # 0 THEN loc[p].newSheetId ELSE @]
     ELSE [e EXCEPT !.version = v, !.enabled = loc[p].want, !.schedule = loc[p].sched]

UpdWrite(p) ==
  /\ pc[p] = "upd_write"
  /\ LET u == Updated(p)
         l == [loc[p] EXCEPT !.touchedDs = TRUE]
     IN /\ ds' = [ds EXCEPT ![loc[p].d] = u]
        /\ IF u.enabled # loc[p].existing.enabled
           THEN Goto(p, IF u.enabled THEN "cst_remove" ELSE "upd_remove", l)
           ELSE IF InRun(p)
                THEN Goto(p, AfterRun(p), [l EXCEPT !.result = "returned"])
                ELSE Goto(p, "idle", [l EXCEPT !.result = "returned"])
  /\ UNCHANGED <<idx, fwd, rev, triggers, recurrence, nextTrig, lock, jobs, nextJob, sheet, cells, named, ops, rq, pq, hist, sh, refresh>>

UpdRemove(p) ==
  /\ pc[p] = "upd_remove"
  /\ SetSched(RemoveScheduleTrigger(Sched, loc[p].d))
  /\ Goto(p, "idle", [loc[p] EXCEPT !.result = "returned"])
  /\ UNCHANGED <<ds, idx, lock, jobs, nextJob, sheet, cells, named, ops, rq, pq, hist, sh, refresh>>

\* ---- createDataset: store the record as given, then add the id to the index
StartCreateDataset(p, d, en) ==
  Begin(p, [Loc0 EXCEPT !.op = "createDataset", !.d = d, !.want = en], "crt_prop")

\* createDataset with any schedule in the record
StartCreateDatasetWith(p, d, en, schedule) ==
  Begin(p, [Loc0 EXCEPT !.op = "createDataset", !.d = d, !.want = en, !.sched = schedule], "crt_prop")

CrtProp(p) ==
  /\ pc[p] = "crt_prop"
  /\ ds' = [ds EXCEPT ![loc[p].d] = [exists |-> TRUE, enabled |-> loc[p].want, version |-> 1,
                                     sheetId |-> 0, lastWrite |-> NoWrite,
                                     schedule |-> loc[p].sched]]
  /\ Goto(p, "crt_index", [loc[p] EXCEPT !.touchedDs = TRUE])
  /\ UNCHANGED <<idx, fwd, rev, triggers, recurrence, nextTrig, lock, jobs, nextJob, sheet, cells, named, ops, rq, pq, hist, sh, refresh>>

CrtIndex(p) ==
  /\ pc[p] = "crt_index"
  /\ idx' = IF \E i \in 1..Len(idx) : idx[i] = loc[p].d THEN idx ELSE Append(idx, loc[p].d)
  /\ Goto(p, "idle", [loc[p] EXCEPT !.result = "returned"])
  /\ UNCHANGED <<ds, fwd, rev, triggers, recurrence, nextTrig, lock, jobs, nextJob, sheet, cells, named, ops, rq, pq, hist, sh, refresh>>

\* ---- updateDatasetsIndex as the two host calls it makes
\* the list updateDatasetsIndex stores: the list it read with the id added
\* (when it is not in it) or with every occurrence of the id removed
UpdatedIndex(datasetIds, datasetId, action) ==
  IF action = "add"
  THEN IF \E i \in 1..Len(datasetIds) : datasetIds[i] = datasetId THEN datasetIds
       ELSE Append(datasetIds, datasetId)
  ELSE SelectSeq(datasetIds, LAMBDA x : x # datasetId)

\* getProperty(DATASETS_INDEX_KEY)
IdxRead(p) ==
  /\ pc[p] \in {"crt_index", "del_index"}
  /\ Goto(p, IF pc[p] = "crt_index" THEN "crt_idxwrite" ELSE "del_idxwrite",
          [loc[p] EXCEPT !.datasetIds = idx])
  /\ UNCHANGED <<storeVars, refresh, ops, rq, pq, hist, sh>>

\* setProperty(DATASETS_INDEX_KEY, ...) with the list made from the one read
IdxWrite(p) ==
  /\ pc[p] \in {"crt_idxwrite", "del_idxwrite"}
  /\ idx' = UpdatedIndex(loc[p].datasetIds, loc[p].d, IF pc[p] = "crt_idxwrite" THEN "add" ELSE "remove")
  /\ Goto(p, "idle", [loc[p] EXCEPT !.result = "returned"])
  /\ UNCHANGED <<ds, fwd, rev, triggers, recurrence, nextTrig, lock, jobs, nextJob, sheet, cells, named, ops, rq, pq, hist, sh, refresh>>

\* ---- removeScheduleTrigger called on its own
StartRemoveTrigger(p, d) ==
  Begin(p, [Loc0 EXCEPT !.op = "removeScheduleTrigger", !.d = d], "upd_remove")

\* ---- createScheduleTrigger (from updateDataset, or called on its own)
\* a call for any dataset id with any schedule: null when it is not enabled
StartCreateTriggerFor(p, d, en) ==
  IF en
  THEN Begin(p, [Loc0 EXCEPT !.op = "createScheduleTrigger", !.d = d], "cst_remove")
  ELSE Begin(p, [Loc0 EXCEPT !.op = "createScheduleTrigger", !.d = d, !.result = "null"], "idle")

StartCreateTrigger(p, d) ==
  /\ ds[d].exists /\ ds[d].enabled
  /\ Begin(p, [Loc0 EXCEPT !.op = "createScheduleTrigger", !.d = d], "cst_remove")

CstRemove(p) ==
  /\ pc[p] = "cst_remove"
  /\ SetSched(RemoveScheduleTrigger(Sched, loc[p].d))
  /\ Goto(p, "cst_create", loc[p])
  /\ UNCHANGED <<ds, idx, lock, jobs, nextJob, sheet, cells, named, ops, rq, pq, hist, sh, refresh>>

\* validateSchedule, as far as freq and timeOfDay go
ValidateSchedule(schedule) ==
  /\ schedule.freq \in {"hourly", "daily", "weekly", "monthly"}
  /\ schedule.freq # "hourly" => schedule.timeOfDay # "absent"

\* the switch of createScheduleTrigger builds a trigger: the frequency is
\* one of its cases, and timeOfDay is there when the case splits it
Buildable(schedule) ==
  \/ schedule.freq = "hourly"
  \/ schedule.freq \in {"daily", "weekly", "monthly"} /\ schedule.timeOfDay # "absent"

CstCreate(p) ==
  /\ pc[p] = "cst_create"
  /\ IF Buildable(loc[p].sched)
     THEN /\ nextTrig \in TriggerIds
          /\ triggers' = triggers \cup {nextTrig}
          /\ recurrence' = [recurrence EXCEPT ![nextTrig] = Recurrence(loc[p].sched)]
          /\ nextTrig' = nextTrig + 1
          /\ Goto(p, "cst_setfwd", [loc[p] EXCEPT !.newt = nextTrig])
     ELSE /\ UNCHANGED <<triggers, recurrence, nextTrig>>
          /\ Goto(p, "idle", [loc[p] EXCEPT !.result = "threw"])
  /\ UNCHANGED <<ds, idx, fwd, rev, lock, jobs, nextJob, sheet, cells, named, ops, rq, pq, hist, sh, refresh>>

CstSetFwd(p) ==
  /\ pc[p] = "cst_setfwd"
  /\ fwd' = [fwd EXCEPT ![loc[p].d] = loc[p].newt]
  /\ Goto(p, "cst_setrev", loc[p])
  /\ UNCHANGED <<ds, idx, rev, triggers, recurrence, nextTrig, lock, jobs, nextJob, sheet, cells, named, ops, rq, pq, hist, sh, refresh>>

CstSetRev(p) ==
  /\ pc[p] = "cst_setrev"
  /\ rev' = [rev EXCEPT ![loc[p].newt] = loc[p].d]
  /\ Goto(p, "idle", [loc[p] EXCEPT !.result = "returned"])
  /\ UNCHANGED <<ds, idx, fwd, triggers, recurrence, nextTrig, lock, jobs, nextJob, sheet, cells, named, ops, rq, pq, hist, sh, refresh>>

\* ---- deleteDataset
StartDelete(p, d) ==
  Begin(p, [Loc0 EXCEPT !.op = "deleteDataset", !.d = d], "del_read")

DelRead(p) ==
  /\ pc[p] = "del_read"
  /\ LET e == ds[loc[p].d] IN
     IF ~e.exists
     THEN Goto(p, "idle", [loc[p] EXCEPT !.result = "threw"])
     ELSE Goto(p, IF e.enabled THEN "del_remove" ELSE "del_prop", [loc[p] EXCEPT !.existing = e])
  /\ UNCHANGED <<storeVars, refresh, ops, rq, pq, hist, sh>>

DelRemove(p) ==
  /\ pc[p] = "del_remove"
  /\ SetSched(RemoveScheduleTrigger(Sched, loc[p].d))
  /\ Goto(p, "del_prop", loc[p])
  /\ UNCHANGED <<ds, idx, lock, jobs, nextJob, sheet, cells, named, ops, rq, pq, hist, sh, refresh>>

DelProp(p) ==
  /\ pc[p] = "del_prop"
  /\ ds' = [ds EXCEPT ![loc[p].d] = NoDataset]
  /\ Goto(p, "del_index", [loc[p] EXCEPT !.touchedDs = TRUE])
  /\ UNCHANGED <<idx, fwd, rev, triggers, recurrence, nextTrig, lock, jobs, nextJob, sheet, cells, named, ops, rq, pq, hist, sh, refresh>>

DelIndex(p) ==
  /\ pc[p] = "del_index"
  /\ idx' = SelectSeq(idx, LAMBDA x : x # loc[p].d)
  /\ Goto(p, "idle", [loc[p] EXCEPT !.result = "returned"])
  /\ UNCHANGED <<ds, fwd, rev, triggers, recurrence, nextTrig, lock, jobs, nextJob, sheet, cells, named, ops, rq, pq, hist, sh, refresh>>

\* ---- runDataset
StartRun(p, d) ==
  /\ JobBudget
  /\ Begin(p, [Loc0 EXCEPT !.op = "runDataset", !.d = d], "run_start")

\* (variant: runDataset takes the user lock when it is free)
RunLockTaken(p) == IF lock = "free" THEN p ELSE lock

\* runDataset makes no call of the lock service: the lock stays as it is
RunLock(p) == lock

RunStart(p) ==
  /\ pc[p] = "run_start"
  /\ lock' = RunLock(p)
  /\ LET e == ds[loc[p].d]
         l == [loc[p] EXCEPT !.ranRunDataset = TRUE]
     IN IF ~e.exists
        THEN /\ Goto(p, AfterRun(p), [l EXCEPT !.result = "threw", !.err = TRUE])
             /\ UNCHANGED <<jobs, nextJob>>
        ELSE LET job == [exists |-> TRUE, datasetId |-> loc[p].d, status |-> "running", progress |-> 0] IN
             /\ nextJob \in JobIds
             /\ jobs' = [jobs EXCEPT ![nextJob] = job]
             /\ nextJob' = nextJob + 1
             /\ Goto(p, "run_p10", [l EXCEPT !.dataset = e, !.job = nextJob, !.jobObj = job])
  /\ UNCHANGED <<ds, idx, fwd, rev, triggers, recurrence, nextTrig, sheet, cells, named, ops, rq, pq, hist, sh, refresh>>

RunProgress(p, at, progress, next) ==
  /\ pc[p] = at
  /\ UpdateJobProgress(loc[p].job, progress)
  /\ Goto(p, next, loc[p])
  /\ UNCHANGED <<ds, idx, fwd, rev, triggers, recurrence, nextTrig, lock, nextJob, sheet, cells, named, ops, rq, pq, hist, sh, refresh>>

RunP10(p) == RunProgress(p, "run_p10", 10, "run_p20")
RunP20(p) == RunProgress(p, "run_p20", 20, "run_fetch")

\* (variant: the runner does not look at the success flag of the fetch and
\* goes on with what it has)
RunFetchUnchecked(p, results) ==
  /\ pc[p] = "run_fetch"
  /\ \/ /\ UpdateJobProgress(loc[p].job, 50)
        /\ Goto(p, "run_p70", loc[p])
     \/ \E tb \in results :
          /\ UpdateJobProgress(loc[p].job, 50)
          /\ Goto(p, "run_p70", [loc[p] EXCEPT !.table = tb])
  /\ UNCHANGED <<ds, idx, fwd, rev, triggers, recurrence, nextTrig, lock, nextJob, sheet, cells, named, ops, rq, pq, hist, sh, refresh>>

\* the fetch through the API client: a failure, or a table and checkpoint 50
RunFetchOf(p, results) ==
  /\ pc[p] = "run_fetch"
  /\ \/ /\ Goto(p, "run_fail", loc[p])
        /\ UNCHANGED jobs
     \/ \E tb \in results :
          /\ UpdateJobProgress(loc[p].job, 50)
          /\ Goto(p, "run_p70", [loc[p] EXCEPT !.table = tb])
  /\ UNCHANGED <<ds, idx, fwd, rev, triggers, recurrence, nextTrig, lock, nextJob, sheet, cells, named, ops, rq, pq, hist, sh, refresh>>

RunFetch(p) == RunFetchOf(p, Tables)
RunFetchAny(p) == RunFetchOf(p, SheetDatas)
RunFetchCell(p) == RunFetchOf(p, {[rows |-> 1, cols |-> 1, ok |-> TRUE, ragged |-> FALSE]})

RunP70(p) == RunProgress(p, "run_p70", 70, "run_clear")

\* writeDataToSheet up to the size check: resolve or create the sheet, clear
\* the region of the lastWrite the run read at its start, then check the size
RunClear(p) ==
  /\ pc[p] = "run_clear"
  /\ LET lw == loc[p].dataset.lastWrite
         created == ~sheet
         region == IF lw.valid /\ ~created THEN Region(lw.rr, lw.rc) ELSE {}
         cleared == [g \in Grid |-> IF g \in region THEN 0 ELSE cells[g]]
         totalCells == loc[p].table.rows * loc[p].table.cols
         l == [loc[p] EXCEPT !.touchedCells = @ \/ cleared # cells,
                             !.createdSheet = created,
                             !.from = IF totalCells > maxCellsHard THEN "sizing" ELSE @,
                             !.newSheetId = IF created \/ loc[p].dataset.sheetId # 1 THEN 1 ELSE 0]
     IN /\ sheet' = TRUE
        /\ cells' = cleared
        /\ Goto(p, IF totalCells > maxCellsHard THEN "run_fail" ELSE "run_setvalues", l)
  /\ UNCHANGED <<ds, idx, fwd, rev, triggers, recurrence, nextTrig, lock, jobs, nextJob, named, ops, rq, pq, hist, sh, refresh>>

\* what writeDataToSheet returns: the dimensions of the range it wrote and of
\* the range rangeA1 names (the anchor cell when there was nothing to write)
WriteResult(tb) ==
  IF tb.rows > 0 /\ tb.cols > 0
  THEN [rows |-> tb.rows, cols |-> tb.cols, rr |-> tb.rows, rc |-> tb.cols]
  ELSE [rows |-> 0, cols |-> 0, rr |-> 1, rc |-> 1]

\* (variant: the lastWrite counts a title row that is not part of the data)
BuildLastWriteTitled(sheetData, writeResult) ==
  [valid |-> TRUE, rows |-> sheetData.rows + 1, cols |-> sheetData.cols,
   rr |-> writeResult.rr, rc |-> writeResult.rc]

\* the lastWrite of the two runners: rows and cols of the conversion result,
\* sheet and rangeA1 of the write result
BuildLastWrite(sheetData, writeResult) ==
  [valid |-> TRUE, rows |-> sheetData.rows, cols |-> sheetData.cols,
   rr |-> writeResult.rr, rc |-> writeResult.rc]

\* updateNamedRange: remove the named range of that name, set it to the range
UpdateNamedRange(old, range) == range

\* writeDataToSheet from the write on, and the lastWrite the runner builds;
\* setValues throws when a row has another length than the range; the
\* named range is updated only when there was something to write
RunSetValues(p) ==
  /\ pc[p] = "run_setvalues"
  /\ LET tb == loc[p].table
         wr == WriteResult(tb)
         range == Region(wr.rows, wr.cols)
         written == [g \in Grid |-> IF g \in range THEN loc[p].job ELSE cells[g]]
     IN IF range # {} /\ tb.ragged
        THEN /\ cells' = cells
             /\ named' = named
             /\ Goto(p, "run_fail", [loc[p] EXCEPT !.from = "setValues"])
        ELSE /\ cells' = written
             /\ named' = IF range # {} THEN UpdateNamedRange(named, [rr |-> wr.rows, rc |-> wr.cols])
                         ELSE named
             /\ Goto(p, "run_p90", [loc[p] EXCEPT !.touchedCells = @ \/ written # cells,
                                                  !.writeResult = wr, !.wroteCells = range,
                                                  !.lastWrite = BuildLastWrite(tb, wr)])
  /\ UNCHANGED <<ds, idx, fwd, rev, triggers, recurrence, nextTrig, lock, jobs, nextJob, sheet, ops, rq, pq, hist, sh, refresh>>

\* writeDataToSheet when a host call after setValues throws (the header
\* format or autoResizeColumn): the cells are written, the named range and
\* the result are not, and the run goes to the catch of runDataset
RunWriteFails(p) ==
  /\ pc[p] = "run_setvalues"
  /\ LET tb == loc[p].table
         wr == WriteResult(tb)
         range == Region(wr.rows, wr.cols)
         written == [g \in Grid |-> IF g \in range THEN loc[p].job ELSE cells[g]]
     IN /\ range # {} /\ ~tb.ragged
        /\ cells' = written
        /\ Goto(p, "run_fail", [loc[p] EXCEPT !.touchedCells = @ \/ written # cells,
                                              !.from = "afterWrite"])
  /\ UNCHANGED <<ds, idx, fwd, rev, triggers, recurrence, nextTrig, lock, jobs, nextJob, sheet, named, ops, rq, pq, hist, sh, refresh>>

RunP90(p) == RunProgress(p, "run_p90", 90, "run_complete")

\* the local job object becomes 'completed' and is stored; updateDataset follows
RunComplete(p) ==
  /\ pc[p] = "run_complete"
  /\ LET job == [loc[p].jobObj EXCEPT !.status = "completed", !.progress = 100] IN
     /\ jobs' = [jobs EXCEPT ![loc[p].job] = job]
     /\ Goto(p, "upd_read", [loc[p] EXCEPT !.jobObj = job])
  /\ UNCHANGED <<ds, idx, fwd, rev, triggers, recurrence, nextTrig, lock, nextJob, sheet, cells, named, ops, rq, pq, hist, sh, refresh>>

\* the catch of runDataset: the local job object becomes 'failed' and is stored
RunFail(p) ==
  /\ pc[p] = "run_fail"
  /\ LET job == [loc[p].jobObj EXCEPT !.status = "failed"] IN
     /\ jobs' = [jobs EXCEPT ![loc[p].job] = job]
     /\ Goto(p, AfterRun(p), [loc[p] EXCEPT !.jobObj = job, !.result = "threw", !.err = TRUE])
  /\ UNCHANGED <<ds, idx, fwd, rev, triggers, recurrence, nextTrig, lock, nextJob, sheet, cells, named, ops, rq, pq, hist, sh, refresh>>

\* ---- scheduledDatasetRun
Fire(p, t) ==
  /\ t \in triggers
  /\ JobBudget
  /\ Begin(p, [Loc0 EXCEPT !.op = "scheduledDatasetRun", !.t = t], "sdr_resolve")

\* a fire whose event carries no triggerUid (t = 0: no trigger id)
FireNoUid(p) ==
  /\ JobBudget
  /\ Begin(p, [Loc0 EXCEPT !.op = "scheduledDatasetRun", !.t = 0], "sdr_resolve")

\* (variant: a trigger without a trigger_<id> entry is deleted as an orphan)
SdrResolveDeletes(p) ==
  /\ pc[p] = "sdr_resolve"
  /\ IF loc[p].t = 0
     THEN /\ Goto(p, "idle", [loc[p] EXCEPT !.result = "noTriggerId"])
          /\ UNCHANGED <<fwd, rev, triggers, recurrence, nextTrig>>
     ELSE IF rev[loc[p].t] = 0
     THEN /\ Goto(p, "idle", [loc[p] EXCEPT !.result = "unmapped"])
          /\ SetSched([Sched EXCEPT !.triggers = @ \ {loc[p].t}])
     ELSE /\ Goto(p, "sdr_getds", [loc[p] EXCEPT !.d = rev[loc[p].t]])
          /\ UNCHANGED <<fwd, rev, triggers, recurrence, nextTrig>>
  /\ UNCHANGED <<ds, idx, lock, jobs, nextJob, sheet, cells, named, refresh, ops, rq, pq, hist, sh>>

\* the two early returns: no trigger id in the event, no trigger_<id> entry
SdrResolve(p) ==
  /\ pc[p] = "sdr_resolve"
  /\ IF loc[p].t = 0
     THEN Goto(p, "idle", [loc[p] EXCEPT !.result = "noTriggerId"])
     ELSE IF rev[loc[p].t] = 0
     THEN Goto(p, "idle", [loc[p] EXCEPT !.result = "unmapped"])
     ELSE Goto(p, "sdr_getds", [loc[p] EXCEPT !.d = rev[loc[p].t]])
  /\ UNCHANGED <<storeVars, refresh, ops, rq, pq, hist, sh>>

SdrGetDataset(p) ==
  /\ pc[p] = "sdr_getds"
  /\ LET e == ds[loc[p].d] IN
     IF ~e.exists \/ ~e.enabled
     THEN Goto(p, "sdr_remove", loc[p])
     ELSE Goto(p, "sdr_lock", [loc[p] EXCEPT !.existing = e])
  /\ UNCHANGED <<storeVars, refresh, ops, rq, pq, hist, sh>>

SdrRemove(p) ==
  /\ pc[p] = "sdr_remove"
  /\ SetSched(RemoveScheduleTrigger(Sched, loc[p].d))
  /\ Goto(p, "idle", [loc[p] EXCEPT !.result = "orphan"])
  /\ UNCHANGED <<ds, idx, lock, jobs, nextJob, sheet, cells, named, ops, rq, pq, hist, sh, refresh>>

\* (variant: the result of tryLock is not looked at)
TryLockAlways(p) == TRUE

\* tryLock(10000): TRUE when the lock is or becomes free within the wait
TryLock(p) == lock = "free"

SdrLock(p) ==
  /\ pc[p] = "sdr_lock"
  /\ IF TryLock(p)
     THEN /\ lock' = p
          /\ Goto(p, "run_start", loc[p])
     ELSE /\ lock' = lock
          /\ Goto(p, "idle", [loc[p] EXCEPT !.result = "skipped"])
  /\ UNCHANGED <<ds, idx, fwd, rev, triggers, recurrence, nextTrig, jobs, nextJob, sheet, cells, named, ops, rq, pq, hist, sh, refresh>>

\* (variant: releaseLock after the run instead of in a finally block)
ReleaseAfterRun(p) == IF lock = p /\ ~loc[p].err THEN "free" ELSE lock

\* the finally block, then the catch when runDataset threw
ReleaseLock(p) == IF lock = p THEN "free" ELSE lock

SdrRelease(p) ==
  /\ pc[p] = "sdr_release"
  /\ lock' = ReleaseLock(p)
  /\ Goto(p, "idle", [loc[p] EXCEPT !.result = IF loc[p].err THEN "error_logged" ELSE "ran"])
  /\ UNCHANGED <<ds, idx, fwd, rev, triggers, recurrence, nextTrig, jobs, nextJob, sheet, cells, named, ops, rq, pq, hist, sh, refresh>>

\* ---- testScheduledRun: a temporary trigger_<id> entry around scheduledDatasetRun
StartTest(p, d) ==
  /\ JobBudget
  /\ Begin(p, [Loc0 EXCEPT !.op = "testScheduledRun", !.d = d], "tsr_get")

TsrGet(p) ==
  /\ pc[p] = "tsr_get"
  /\ IF ~ds[loc[p].d].exists
     THEN Goto(p, "idle", [loc[p] EXCEPT !.result = "threw"])
     ELSE Goto(p, "tsr_map", loc[p])
  /\ UNCHANGED <<storeVars, refresh, ops, rq, pq, hist, sh>>

\* the mock trigger id is a fresh id that names no trigger
TsrMap(p) ==
  /\ pc[p] = "tsr_map"
  /\ nextTrig \in TriggerIds
  /\ rev' = [rev EXCEPT ![nextTrig] = loc[p].d]
  /\ nextTrig' = nextTrig + 1
  /\ Goto(p, "sdr_resolve", [loc[p] EXCEPT !.t = nextTrig])
  /\ UNCHANGED <<ds, idx, fwd, triggers, recurrence, lock, jobs, nextJob, sheet, cells, named, ops, rq, pq, hist, sh, refresh>>

\* (variant: the temporary mapping is left behind)
TsrForget(R, t) == R

\* the finally block: delete the temporary mapping
TsrUnmap(R, t) == [R EXCEPT ![t] = 0]

TsrCleanup(p) ==
  /\ pc[p] = "tsr_cleanup"
  /\ rev' = TsrUnmap(rev, loc[p].t)
  /\ Goto(p, "idle", loc[p])
  /\ UNCHANGED <<ds, idx, fwd, triggers, recurrence, nextTrig, lock, jobs, nextJob, sheet, cells, named, ops, rq, pq, hist, sh, refresh>>

\* ---- refreshAllDatasets and processRefreshJob
RunLocals0(l) ==
  [l EXCEPT !.dataset = NoDataset, !.job = 0, !.jobObj = NoJob, !.table = NoTable,
            !.lastWrite = NoWrite, !.newSheetId = 0, !.writeResult = NoWriteResult,
            !.wroteCells = {}, !.from = "none", !.result = "none", !.err = FALSE]

\* the ids of the datasets whose schedule is enabled, in the order of getDatasets
EnabledDatasets(index, store) == SelectSeq(GetDatasets(index, store), LAMBDA d : store[d].enabled)

\* (variant: one completed sub-job is enough for 'completed')
AggregateStatusLenient(subjobs) ==
  IF \E i \in 1..Len(subjobs) : subjobs[i].status = "completed" THEN "completed"
  ELSE IF \E i \in 1..Len(subjobs) : subjobs[i].status = "error" THEN "error"
  ELSE "running"

\* the status processRefreshJob gives the whole job at its end
AggregateStatus(subjobs) ==
  IF \A i \in 1..Len(subjobs) : subjobs[i].status = "completed" THEN "completed"
  ELSE IF \E i \in 1..Len(subjobs) : subjobs[i].status = "error" THEN "error"
  ELSE "running"

\* 'Refresh All Datasets' of the menu; one such request is followed
StartRefresh(p) ==
  /\ ~refresh.exists
  /\ \A q \in Procs : loc[q].op # "refreshAllDatasets" \/ pc[q] = "idle"
  /\ nextJob + NumDatasets - 1 <= MaxJobs
  /\ Enter(p, [Loc0 EXCEPT !.op = "refreshAllDatasets"], "rad_list")
  /\ UNCHANGED <<storeVars, refresh, rq, pq, hist, sh>>

\* refreshAllDatasets: list the enabled datasets and store the job, every
\* sub-job 'queued'
RadList(p) ==
  /\ pc[p] = "rad_list"
  /\ LET enabledDatasets == EnabledDatasets(idx, ds) IN
     IF enabledDatasets = <<>>
     THEN /\ refresh' = refresh
          /\ Goto(p, "idle", [loc[p] EXCEPT !.result = "returned"])
     ELSE /\ refresh' = [exists |-> TRUE, status |-> "running",
                         jobs |-> [i \in 1..Len(enabledDatasets) |->
                                     [datasetId |-> enabledDatasets[i], status |-> "queued"]]]
          /\ Goto(p, "prj_read", loc[p])
  /\ UNCHANGED <<storeVars, ops, rq, pq, hist, sh>>

\* processRefreshJob: read the stored job
PrjRead(p) ==
  /\ pc[p] = "prj_read"
  /\ IF ~refresh.exists
     THEN Goto(p, "idle", [loc[p] EXCEPT !.result = "returned"])
     ELSE Goto(p, "prj_get", [loc[p] EXCEPT !.rjobs = refresh.jobs, !.ri = 1])
  /\ UNCHANGED <<storeVars, refresh, ops, rq, pq, hist, sh>>

\* one pass of the loop up to the call of runDataset: a queued sub-job
\* becomes 'running', its dataset is looked up; a missing one is an 'error'
PrjGet(p) ==
  /\ pc[p] = "prj_get"
  /\ LET i == loc[p].ri IN
     IF i > Len(loc[p].rjobs)
     THEN Goto(p, "prj_store", loc[p])
     ELSE IF loc[p].rjobs[i].status # "queued"
     THEN Goto(p, "prj_get", [loc[p] EXCEPT !.ri = i + 1])
     ELSE IF ds[loc[p].rjobs[i].datasetId].exists
     THEN Goto(p, "run_start", [RunLocals0(loc[p]) EXCEPT !.d = loc[p].rjobs[i].datasetId,
                                                         !.rjobs[i].status = "running"])
     ELSE Goto(p, "prj_get", [loc[p] EXCEPT !.rjobs[i].status = "error", !.ri = i + 1])
  /\ UNCHANGED <<storeVars, refresh, ops, rq, pq, hist, sh>>

\* runDataset has returned or thrown: 'completed' or, in the catch, 'error'
PrjAfter(p) ==
  /\ pc[p] = "prj_after"
  /\ LET i == loc[p].ri IN
     Goto(p, "prj_get", [loc[p] EXCEPT !.rjobs[i].status = IF loc[p].result = "threw" THEN "error"
                                                           ELSE "completed",
                                       !.ri = i + 1])
  /\ UNCHANGED <<storeVars, refresh, ops, rq, pq, hist, sh>>

\* after the loop: the status of the whole job, and the job is stored
PrjStore(p) ==
  /\ pc[p] = "prj_store"
  /\ refresh' = [refresh EXCEPT !.exists = TRUE, !.jobs = loc[p].rjobs,
                                !.status = AggregateStatus(loc[p].rjobs)]
  /\ Goto(p, "idle", [loc[p] EXCEPT !.result = "returned"])
  /\ UNCHANGED <<storeVars, ops, rq, pq, hist, sh>>

RefreshSteps(p) ==
  \/ StartRefresh(p)
  \/ RadList(p)
  \/ PrjRead(p)
  \/ PrjGet(p)
  \/ PrjAfter(p)
  \/ PrjStore(p)

\* ---- cleanupOrphanedTriggers, start to end
Cleanup(p) ==
  LET R == CleanupOrphanedTriggers(Sched, idx, ds) IN
  /\ R.nextTrig <= NumDatasets + MaxNewTriggers + 1
  /\ Enter(p, [Loc0 EXCEPT !.op = "cleanupOrphanedTriggers", !.removed = R.removed,
                            !.repaired = R.repaired, !.result = "returned"], "idle")
  /\ SetSched(R)
  /\ UNCHANGED <<ds, idx, lock, jobs, nextJob, sheet, cells, named, rq, pq, hist, sh, refresh>>

\* ------------------------------------- the API client (Auth.gs, part_002)
fwrMaxAttempts == 4
fwrBaseDelayMs == 750
fwrSleepCapMs == 60000
qboMaxAttempts == 6
qboBaseDelayMs == 250
qboDelayCapMs == 30000

\* a response: an HTTP status, or 0 for UrlFetchApp.fetch throwing; the
\* Retry-After header in seconds, 0 when absent
Statuses == {0, 200, 400, 401, 429, 500, 504, 505}
RetryAfters == {0, 1, 120}
\* Math.floor(Math.random() * 250)
Jitters == {0, 249}

\* the body of a 4xx response: JSON with Fault.Error[0].Message, JSON with
\* an error field, other JSON, or text that is not JSON
Bodies == {"fault", "error", "json", "text"}
NoMessage == [status |-> 0, text |-> "none", expired |-> FALSE]
\* the bodies told apart for an answer with this status ("none": a body that
\* is not looked at in what follows)
BodiesOf(status) == IF status >= 400 /\ status < 500 /\ status \notin {401, 429} THEN Bodies ELSE {"none"}

\* the message qboFetch_ builds from the status and the body
QboMessage(status, body) ==
  [status |-> status,
   text |-> CASE body = "fault" -> "Fault.Error.Message"
              [] body = "error" -> "error"
              [] body = "text" -> "bodyText"
              [] OTHER -> "",
   expired |-> status = 401]

\* parseQboError: the message runCustomQuery reports for a response it got back
ParseQboError(status, body) ==
  CASE body = "fault" -> "Fault.Error.Message"
    [] body = "text" -> "QuickBooks request failed. (status)"
    [] OTHER -> "QuickBooks request failed."

\* delay: the delay computed for the last sleep without its jitter;
\* wait: the milliseconds handed to Utilities.sleep
\* body: the body of the response the request ended with; message: the
\* message of the error qboFetch_ threw
Rq0 == [fn |-> "none", state |-> "idle", attempt |-> 0, calls |-> 0, refreshes |-> 0,
        resets |-> 0, sleeps |-> 0, delay |-> 0, wait |-> 0, last |-> 0, lastError |-> FALSE,
        body |-> "none", message |-> NoMessage]

\* first, second: the status of the first and second response (-1: none yet);
\* n429: the 429 responses so far; slept: the milliseconds slept so far;
\* expSum: the capped exponential delays of the sleeps made, added up
Hist0 == [first |-> -1, second |-> -1, n429 |-> 0, slept |-> 0, expSum |-> 0]

\* SpecHash: no run has recorded a schemaHash yet
NoHash == <<"none", "">>
Sh0 == [runs |-> 0, data1 |-> <<>>, hash1 |-> NoHash, data2 |-> <<>>, hash2 |-> NoHash]

Pow2(n) == 2 ^ n
Min(a, b) == IF a <= b THEN a ELSE b

StartRequest(fn) ==
  /\ rq.state = "idle"
  /\ rq' = [Rq0 EXCEPT !.fn = fn, !.state = "running", !.attempt = IF fn = "qboFetch_" THEN 1 ELSE 0]
  /\ UNCHANGED <<storeVars, refresh, pc, loc, ops, succ, pq, sh>>

\* the catch inside the loop of fetchWithRetry
FwrCaught(r) ==
  [r EXCEPT !.lastError = TRUE, !.sleeps = @ + 1,
            !.delay = Pow2(r.attempt) * fwrBaseDelayMs,
            !.wait = Pow2(r.attempt) * fwrBaseDelayMs, !.attempt = @ + 1]

\* (variant: the 401 branch goes round again without counting the attempt)
FwrOn401Uncounted(r, refreshOk) ==
  LET q == [r EXCEPT !.refreshes = @ + 1] IN
  IF refreshOk THEN q ELSE FwrCaught(q)

\* reaction of fetchWithRetry to a 401: refresh the token and go round again
FwrOn401(r, refreshOk) ==
  LET q == [r EXCEPT !.refreshes = @ + 1] IN
  IF refreshOk THEN [q EXCEPT !.attempt = @ + 1] ELSE FwrCaught(q)

\* one pass through the loop of fetchWithRetry
FwrAttempt ==
  /\ rq.fn = "fetchWithRetry" /\ rq.state = "running"
  /\ rq.attempt < fwrMaxAttempts
  /\ \E status \in Statuses, retryAfter \in RetryAfters, refreshOk \in BOOLEAN :
     \E body \in BodiesOf(status) :
       LET r == [rq EXCEPT !.calls = @ + 1, !.last = status] IN
       rq' = IF status = 0 THEN FwrCaught(r)
             ELSE IF status = 401 THEN FwrOn401(r, refreshOk)
             ELSE IF status = 429 \/ (status >= 500 /\ status < 600)
             THEN LET delay == IF retryAfter # 0 THEN retryAfter * 1000
                               ELSE Pow2(r.attempt) * fwrBaseDelayMs
                  IN [r EXCEPT !.sleeps = @ + 1, !.delay = Min(delay, fwrSleepCapMs),
                               !.wait = Min(delay, fwrSleepCapMs), !.attempt = @ + 1]
             ELSE [r EXCEPT !.state = "returned", !.body = body]
  /\ UNCHANGED <<storeVars, refresh, pc, loc, ops, succ, pq, sh>>

\* after the loop of fetchWithRetry: the attempts are used up
FwrExhausted ==
  /\ rq.fn = "fetchWithRetry" /\ rq.state = "running"
  /\ rq.attempt >= fwrMaxAttempts
  /\ rq' = [rq EXCEPT !.state = "thrown"]
  /\ UNCHANGED <<storeVars, refresh, pc, loc, ops, succ, pq, sh>>

\* (variant: every 401 is answered with a refresh and another attempt)
QboRefreshesAlways(status, attemptNumber) == status = 401

\* qboFetch_ refreshes on a 401 only when this is the first attempt
QboRefreshes(status, attemptNumber) == status = 401 /\ attemptNumber = 1

\* (variant: every error status but 401 is answered with a sleep and a retry)
QboRetriesAnyError(status, attemptNumber) ==
  status >= 400 /\ status # 401 /\ attemptNumber < qboMaxAttempts

\* qboFetch_ sleeps and retries on 429 and 500..504 while attempts are left
QboRetries(status, attemptNumber) ==
  (status = 429 \/ (status >= 500 /\ status <= 504)) /\ attemptNumber < qboMaxAttempts

\* one activation of qboFetch_ (it calls itself for the next attempt)
QboAttempt ==
  /\ rq.fn = "qboFetch_" /\ rq.state = "running"
  /\ \E status \in Statuses, retryAfter \in RetryAfters, hasAccess \in BOOLEAN, jitter \in Jitters :
     \E body \in BodiesOf(status) :
       LET r == [rq EXCEPT !.calls = @ + 1, !.last = status]
           baseDelay == Min(qboDelayCapMs, Pow2(r.attempt) * qboBaseDelayMs)
           waitMs == IF retryAfter > 0 THEN retryAfter * 1000 ELSE baseDelay + jitter
       IN
       rq' = IF ~hasAccess THEN [rq EXCEPT !.state = "thrown"]
             ELSE IF status = 0 THEN [r EXCEPT !.state = "thrown", !.lastError = TRUE]
             ELSE IF status >= 200 /\ status < 300 THEN [r EXCEPT !.state = "returned"]
             ELSE IF QboRefreshes(status, r.attempt)
             THEN [r EXCEPT !.refreshes = @ + 1, !.attempt = @ + 1]
             ELSE IF QboRetries(status, r.attempt)
             THEN [r EXCEPT !.sleeps = @ + 1, !.attempt = @ + 1, !.wait = waitMs,
                            !.delay = IF retryAfter > 0 THEN retryAfter * 1000 ELSE baseDelay]
             ELSE IF status = 401
             THEN [r EXCEPT !.resets = @ + 1, !.state = "thrown", !.body = body,
                            !.message = QboMessage(status, body)]
             ELSE [r EXCEPT !.state = "thrown", !.body = body, !.message = QboMessage(status, body)]
  /\ UNCHANGED <<storeVars, refresh, pc, loc, ops, succ, pq, sh>>

\* ---- runCustomQuery: the loop over the pages of a query
QBO_MAX_PAGE_SIZE == 1000
Max(a, b) == IF a >= b THEN a ELSE b

\* the entity types the connector lists as queryable
QUERYABLE_ENTITIES ==
  {"Account", "Bill", "BillPayment", "Budget", "Class", "CreditMemo",
   "Customer", "Department", "Deposit", "Employee", "Estimate", "Invoice",
   "Item", "JournalEntry", "Payment", "PaymentMethod", "Purchase",
   "PurchaseOrder", "RefundReceipt", "SalesReceipt", "TaxCode", "TaxRate",
   "Term", "TimeActivity", "Transfer", "Vendor", "VendorCredit"}

\* A query text, as far as parseQuery looks at it: select says that the text
\* starts with SELECT ... FROM; from is the word after the first FROM
\* ("none": no word follows a FROM).
NoQuery == [select |-> FALSE, from |-> "none"]
FromWords == {"Customer", "Invoice", "customer", "Foo", "none"}
Queries == [select : BOOLEAN, from : FromWords]
Invalid == [valid |-> FALSE, from |-> "none"]

\* parseQuery of the report and query module with the entity check
ParseQueryChecked(query) ==
  IF ~query.select THEN Invalid
  ELSE IF query.from = "none" THEN Invalid
  ELSE IF query.from \notin QUERYABLE_ENTITIES THEN Invalid
  ELSE [valid |-> TRUE, from |-> query.from]

\* parseQuery of the paging module: SELECT and FROM must be there
ParseQueryPlain(query) ==
  IF ~query.select \/ query.from = "none" THEN Invalid
  ELSE [valid |-> TRUE, from |-> query.from]

\* Both definitions are global functions named parseQuery; the one of the
\* file the host loaded last is the one every caller gets.
Parsers == {"checked", "plain"}
ParseQuery(parser, query) ==
  IF parser = "checked" THEN ParseQueryChecked(query) ELSE ParseQueryPlain(query)

\* validateDataset for a dataset of type query whose other fields are in order
ValidateDataset(parser, query) == ParseQuery(parser, query).valid

\* pages: one record per page answered with 200 (start position asked for,
\* entities returned, totalCount of the response or -1 when it has none,
\* position reached); fetchedPages counts every page request
Pq0 == [state |-> "idle", query |-> NoQuery, parser |-> "none",
        fetchAll |-> FALSE, pageSize |-> 0, maxPages |-> 0,
        currentStart |-> 0, aggregated |-> 0, totalCount |-> 0, reported |-> FALSE,
        fetchedPages |-> 0, hasMore |-> FALSE, nextStartPosition |-> 0,
        pages |-> <<>>, errorCode |-> 0]

StartQuery(parser, query, startPosition, maxResults, fetchAll, maxPages) ==
  /\ pq.state = "idle"
  /\ pq' = IF ~ParseQuery(parser, query).valid
           THEN [Pq0 EXCEPT !.state = "threw", !.query = query, !.parser = parser]
           ELSE [Pq0 EXCEPT !.state = "running", !.query = query, !.parser = parser,
                            !.fetchAll = fetchAll, !.maxPages = maxPages,
                            !.pageSize = Max(1, Min(QBO_MAX_PAGE_SIZE, maxResults)),
                            !.currentStart = Max(1, startPosition),
                            !.nextStartPosition = Max(1, startPosition)]
  /\ UNCHANGED <<storeVars, refresh, pc, loc, ops, succ, rq, hist, sh>>

\* the entities a server holding 'total' records returns for a page
ReturnedCount(total, start, pageSize) == Min(pageSize, Max(0, total - start + 1))

\* (variant: the loop goes on while the last page was full, whatever the ceiling)
GoesOnUncapped(fetchAll, hasMore, fetchedPages, maxPages) == fetchAll /\ hasMore

\* the loop asks for another page
GoesOn(fetchAll, hasMore, fetchedPages, maxPages) ==
  ~(~fetchAll \/ ~hasMore \/ fetchedPages >= maxPages)

\* one turn of the loop: a page request and what follows from the response.
\* The server holds 'total' records at the time of the request (the company
\* data can change between two requests) and reports the total or not.
QueryPage ==
  /\ pq.state = "running"
  /\ \E statusCode \in {200, 429, 500}, total \in 0..MaxTotal, reports \in BOOLEAN :
       LET fetchedPages == pq.fetchedPages + 1
           returnedCount == ReturnedCount(total, pq.currentStart, pq.pageSize)
           aggregated == pq.aggregated + returnedCount
           totalCount == IF reports THEN total
                         ELSE IF pq.totalCount # 0 THEN pq.totalCount ELSE aggregated
           startFromResponse == pq.currentStart
           nextStartPosition == startFromResponse + returnedCount
           moreByTotal == IF reports THEN (startFromResponse - 1 + returnedCount) < total ELSE FALSE
           moreByBatch == returnedCount = pq.pageSize
           progressed == nextStartPosition > pq.currentStart
           hasMore == (moreByTotal \/ moreByBatch) /\ progressed
           page == [start |-> pq.currentStart, returned |-> returnedCount,
                    total |-> IF reports THEN total ELSE -1,
                    reached |-> startFromResponse - 1 + returnedCount]
           r == [pq EXCEPT !.fetchedPages = fetchedPages, !.aggregated = aggregated,
                           !.totalCount = totalCount, !.reported = @ \/ reports,
                           !.nextStartPosition = nextStartPosition, !.hasMore = hasMore,
                           !.pages = Append(@, page)]
       IN pq' = IF statusCode # 200
                THEN [pq EXCEPT !.fetchedPages = fetchedPages, !.state = "failed", !.errorCode = statusCode]
                ELSE IF GoesOn(pq.fetchAll, hasMore, fetchedPages, pq.maxPages)
                THEN [r EXCEPT !.currentStart = nextStartPosition]
                ELSE [r EXCEPT !.state = "returned"]
  /\ UNCHANGED <<storeVars, refresh, pc, loc, ops, succ, rq, hist, sh>>

\* one turn of the loop against a server that answers anything: any number
\* of entities (more than asked for included), any startPosition (0: none
\* in the response) and any totalCount (-1: none in the response)
QueryPageAny ==
  /\ pq.state = "running"
  /\ \E statusCode \in {200, 429, 500}, returnedCount \in 0..(pq.pageSize + 1),
        startPosition \in -1..MaxEcho, total \in -1..MaxTotal :
       LET fetchedPages == pq.fetchedPages + 1
           reports == total # -1
           aggregated == pq.aggregated + returnedCount
           totalCount == IF reports THEN total
                         ELSE IF pq.totalCount # 0 THEN pq.totalCount ELSE aggregated
           startFromResponse == IF startPosition # 0 THEN startPosition ELSE pq.currentStart
           nextStartPosition == startFromResponse + returnedCount
           moreByTotal == IF reports THEN (startFromResponse - 1 + returnedCount) < total ELSE FALSE
           moreByBatch == returnedCount = pq.pageSize
           progressed == nextStartPosition > pq.currentStart
           hasMore == (moreByTotal \/ moreByBatch) /\ progressed
           r == [pq EXCEPT !.fetchedPages = fetchedPages, !.aggregated = aggregated,
                           !.totalCount = totalCount, !.reported = @ \/ reports,
                           !.nextStartPosition = nextStartPosition, !.hasMore = hasMore]
       IN pq' = IF statusCode # 200
                THEN [pq EXCEPT !.fetchedPages = fetchedPages, !.state = "failed", !.errorCode = statusCode]
                ELSE IF GoesOn(pq.fetchAll, hasMore, fetchedPages, pq.maxPages)
                THEN [r EXCEPT !.currentStart = nextStartPosition]
                ELSE [r EXCEPT !.state = "returned"]
  /\ UNCHANGED <<storeVars, refresh, pc, loc, ops, succ, rq, hist, sh>>

\* ------------------------------------------------------------------ Spec
\* Each stored dataset was created with its schedule off (version 1) and
\* possibly enabled by one updateDataset (version 2, trigger, both mapping
\* entries); ids outside 'present' are not stored.
InitStore(present, en, budget) ==
  /\ ds = [d \in DatasetIds |->
             IF d \in present
             THEN [exists |-> TRUE, enabled |-> en[d], version |-> IF en[d] THEN 2 ELSE 1,
                   sheetId |-> 0, lastWrite |-> NoWrite, schedule |-> DefaultSchedule]
             ELSE NoDataset]
  /\ idx = SelectSeq([i \in 1..NumDatasets |-> i], LAMBDA x : x \in present)
  /\ fwd = [d \in DatasetIds |-> IF d \in present /\ en[d] THEN d ELSE 0]
  /\ rev = [t \in TriggerIds |-> IF t \in present /\ en[t] THEN t ELSE 0]
  /\ triggers = {d \in present : en[d]}
  /\ recurrence = [t \in TriggerIds |-> IF t \in present /\ en[t] THEN Recurrence(DefaultSchedule)
                                        ELSE NoRecurrence]
  /\ nextTrig = NumDatasets + 1
  /\ lock = "free"
  /\ jobs = [j \in JobIds |-> NoJob]
  /\ nextJob = 1
  /\ cells = [g \in Grid |-> 0]
  /\ named = NoNamedRange
  /\ pc = [p \in Procs |-> "idle"]
  /\ loc = [p \in Procs |-> Loc0]
  /\ ops = budget
  /\ succ = Succ0
  /\ rq = Rq0
  /\ pq = Pq0
  /\ hist = Hist0
  /\ sh = Sh0
  /\ refresh = NoRefresh

UpdateSteps(p) ==
  \/ \E d \in DatasetIds, en \in BOOLEAN : StartUpdate(p, d, en)
  \/ UpdRead(p)
  \/ UpdWrite(p)
  \/ UpdRemove(p)

CreateTriggerSteps(p) ==
  \/ CstRemove(p)
  \/ CstCreate(p)
  \/ CstSetFwd(p)
  \/ CstSetRev(p)

DeleteSteps(p) ==
  \/ \E d \in DatasetIds : StartDelete(p, d)
  \/ DelRead(p)
  \/ DelRemove(p)
  \/ DelProp(p)
  \/ DelIndex(p)

RunSteps(p) ==
  \/ RunStart(p)
  \/ RunP10(p)
  \/ RunP20(p)
  \/ RunFetch(p)
  \/ RunP70(p)
  \/ RunClear(p)
  \/ RunSetValues(p)
  \/ RunP90(p)
  \/ RunComplete(p)
  \/ RunFail(p)

\* the run with every shape of conversion result
RunStepsAny(p) ==
  \/ RunStart(p)
  \/ RunP10(p)
  \/ RunP20(p)
  \/ RunFetchAny(p)
  \/ RunP70(p)
  \/ RunClear(p)
  \/ RunSetValues(p)
  \/ RunP90(p)
  \/ RunComplete(p)
  \/ RunFail(p)

\* the run with a result of one cell
RunStepsCell(p) ==
  \/ RunStart(p)
  \/ RunP10(p)
  \/ RunP20(p)
  \/ RunFetchCell(p)
  \/ RunP70(p)
  \/ RunClear(p)
  \/ RunSetValues(p)
  \/ RunP90(p)
  \/ RunComplete(p)
  \/ RunFail(p)

CreateDatasetSteps(p) ==
  \/ \E d \in DatasetIds, en \in BOOLEAN : StartCreateDataset(p, d, en)
  \/ CrtProp(p)
  \/ CrtIndex(p)

TestSteps(p) ==
  \/ \E d \in DatasetIds : StartTest(p, d)
  \/ TsrGet(p)
  \/ TsrMap(p)
  \/ TsrCleanup(p)

ScheduledSteps(p) ==
  \/ \E t \in TriggerIds : Fire(p, t)
  \/ SdrResolve(p)
  \/ SdrGetDataset(p)
  \/ SdrRemove(p)
  \/ SdrLock(p)
  \/ SdrRelease(p)

\* The steps at these positions touch nothing but the execution's own job
\* record, so they commute with every step of another execution; they are
\* taken before any other execution continues.
OwnJobOnly == {"run_p10", "run_p20", "run_fetch", "run_p70", "run_p90", "run_complete", "run_fail"}

MayStep(p) == \A q \in Procs \ {p} : pc[q] \notin OwnJobOnly

\* History of createScheduleTrigger calls: 'one' after a call that ran from
\* start to end while no other execution was under way, 'both' after a
\* second such call for the same dataset that followed it directly.
CstPcs == {"cst_remove", "cst_create", "cst_setfwd", "cst_setrev"}

Track(p) ==
  succ' =
    IF pc[p] \notin CstPcs /\ pc'[p] = "cst_remove" /\ \A q \in Procs \ {p} : pc[q] = "idle"
    THEN IF succ.phase = "one" /\ succ.d = loc'[p].d
         THEN [succ EXCEPT !.phase = "second", !.p = p]
         ELSE [Succ0 EXCEPT !.phase = "first", !.p = p, !.d = loc'[p].d]
    ELSE IF pc[p] \in CstPcs /\ succ.p = p /\ succ.phase \in {"first", "second"}
    THEN IF pc'[p] \in CstPcs THEN succ
         ELSE IF succ.phase = "first"
              THEN [succ EXCEPT !.phase = "one", !.p = "none", !.t1 = loc[p].newt]
              ELSE [succ EXCEPT !.phase = "both", !.p = "none", !.t2 = loc[p].newt]
    ELSE Succ0

\* ---- Spec: manual runs against concurrent edits of the dataset
Init ==
  /\ \E en \in [DatasetIds -> BOOLEAN] : InitStore({1}, en, MaxOps)
  /\ sheet \in BOOLEAN

Next ==
  \E p \in Procs :
    /\ MayStep(p)
    /\ \/ \E d \in DatasetIds : StartRun(p, d)
       \/ RunSteps(p)
       \/ UpdateSteps(p)
       \/ CreateTriggerSteps(p)
       \/ DeleteSteps(p)
    /\ UNCHANGED <<succ, hist>>

Spec == Init /\ [][Next]_vars

\* ---- SpecWrite: manual runs over every shape of conversion result
InitWrite ==
  /\ InitStore({1}, [d \in DatasetIds |-> FALSE], MaxWriteOps)
  /\ sheet = TRUE

NextWrite ==
  \E p \in Procs :
    /\ MayStep(p)
    /\ \/ StartRun(p, 1)
       \/ RunStepsAny(p)
       \/ UpdRead(p)
       \/ UpdWrite(p)
    /\ UNCHANGED <<succ, hist>>

SpecWrite == InitWrite /\ [][NextWrite]_vars

\* ---- SpecSeq: calls made one after the other, each run to its end
InitSeq ==
  /\ \E en \in [DatasetIds -> BOOLEAN] : InitStore({1}, en, MaxSeqOps)
  /\ sheet = TRUE

NextSeq ==
  \E p \in {"A"} :
    /\ \/ CreateDatasetSteps(p)
       \/ UpdateSteps(p)
       \/ DeleteSteps(p)
       \/ \E d \in DatasetIds, en \in BOOLEAN : StartCreateTriggerFor(p, d, en)
       \/ CreateTriggerSteps(p)
       \/ \E d \in DatasetIds : StartRemoveTrigger(p, d)
       \/ ScheduledSteps(p)
       \/ RunStepsCell(p)
       \/ TestSteps(p)
       \/ Cleanup(p)
    /\ UNCHANGED <<succ, hist>>

SpecSeq == InitSeq /\ [][NextSeq]_vars

\* ---- SpecSched: trigger fires, schedule edits and trigger maintenance
InitSched ==
  /\ \E en \in [DatasetIds -> BOOLEAN] : InitStore({1}, en, MaxSchedOps)
  /\ sheet = TRUE

NextSched ==
  \E p \in Procs :
    /\ MayStep(p)
    /\ \/ ScheduledSteps(p)
       \/ RunSteps(p)
       \/ UpdateSteps(p)
       \/ \E d \in DatasetIds : StartCreateTrigger(p, d)
       \/ CreateTriggerSteps(p)
       \/ DeleteSteps(p)
       \/ Cleanup(p)
    /\ UNCHANGED <<succ, hist>>

SpecSched == InitSched /\ [][NextSched]_vars

\* ---- SpecLock: trigger fires of two datasets against concurrent edits
InitLock ==
  /\ \E en \in [DatasetIds -> BOOLEAN] : InitStore({1, 2}, en, MaxLockOps)
  /\ sheet = TRUE

\* trigger fires, the runs they make (with the updateDataset that ends a
\* run) and deletions of datasets
NextLock ==
  \E p \in Procs :
    /\ MayStep(p)
    /\ \/ ScheduledSteps(p)
       \/ RunSteps(p)
       \/ UpdRead(p)
       \/ UpdWrite(p)
       \/ DeleteSteps(p)
    /\ UNCHANGED <<succ, hist>>

SpecLock == InitLock /\ [][NextLock]_vars

\* ---- SpecRace: manual runs against trigger fires for the same dataset
InitRace ==
  /\ InitStore({1}, [d \in DatasetIds |-> d = 1], MaxRaceOps)
  /\ sheet = TRUE

NextRace ==
  \E p \in Procs :
    /\ MayStep(p)
    /\ \/ StartRun(p, 1)
       \/ ScheduledSteps(p)
       \/ RunStepsCell(p)
       \/ UpdRead(p)
       \/ UpdWrite(p)
       \/ DeleteSteps(p)
    /\ UNCHANGED <<succ, hist>>

SpecRace == InitRace /\ [][NextRace]_vars

\* ---- SpecFire: trigger fires, with and without a trigger id in the event,
\* against createScheduleTrigger calls that make and map triggers
InitFire ==
  /\ \E en \in [DatasetIds -> BOOLEAN] : InitStore({1}, en, MaxFireOps)
  /\ sheet = TRUE

NextFire ==
  \E p \in Procs :
    /\ MayStep(p)
    /\ \/ FireNoUid(p)
       \/ ScheduledSteps(p)
       \/ RunStepsCell(p)
       \/ UpdRead(p)
       \/ UpdWrite(p)
       \/ StartCreateTrigger(p, 1)
       \/ CreateTriggerSteps(p)
    /\ UNCHANGED <<succ, hist>>

SpecFire == InitFire /\ [][NextFire]_vars

\* ---- SpecRefresh: 'Refresh All Datasets' against deletions of datasets
InitRefresh ==
  /\ \E en \in [DatasetIds -> BOOLEAN] : InitStore(DatasetIds, en, MaxRefreshOps)
  /\ sheet = TRUE

NextRefresh ==
  \E p \in Procs :
    /\ MayStep(p)
    /\ \/ RefreshSteps(p)
       \/ RunStepsCell(p)
       \/ UpdRead(p)
       \/ UpdWrite(p)
       \/ DeleteSteps(p)
    /\ UNCHANGED <<succ, hist>>

SpecRefresh == InitRefresh /\ [][NextRefresh]_vars

\* ---- SpecStale: manual runs of one dataset, one after the other, with
\* host calls that may fail after the write
InitStale ==
  /\ InitStore({1}, [d \in DatasetIds |-> FALSE], MaxStaleOps)
  /\ sheet = TRUE

NextStale ==
  \E p \in Procs :
    /\ \/ StartRun(p, 1) /\ \A q \in Procs : pc[q] = "idle"
       \/ RunSteps(p)
       \/ RunWriteFails(p)
       \/ UpdRead(p)
       \/ UpdWrite(p)
    /\ UNCHANGED <<succ, hist>>

SpecStale == InitStale /\ [][NextStale]_vars

\* ---- SpecIndex: createDataset and deleteDataset as separate executions,
\* each new dataset under a fresh id
InitIndex ==
  /\ \E present \in SUBSET DatasetIds : InitStore(present, [d \in DatasetIds |-> FALSE], MaxIndexOps)
  /\ sheet = TRUE

NextIndex ==
  \E p \in Procs :
    /\ \/ \E d \in DatasetIds :
            /\ ~ds[d].exists
            /\ \A q \in Procs : pc[q] = "idle" \/ loc[q].d # d
            /\ StartCreateDataset(p, d, FALSE)
       \/ CrtProp(p)
       \/ \E d \in DatasetIds : StartDelete(p, d)
       \/ DelRead(p)
       \/ DelRemove(p)
       \/ DelProp(p)
       \/ IdxRead(p)
       \/ IdxWrite(p)
    /\ UNCHANGED <<succ, hist>>

SpecIndex == InitIndex /\ [][NextIndex]_vars

\* ---- SpecStore: createDataset and updateDataset with any schedule
InitStoreOps ==
  /\ InitStore({1}, [d \in DatasetIds |-> FALSE], MaxStoreOps)
  /\ sheet = TRUE

NextStore ==
  \E p \in Procs :
    /\ \/ \E d \in DatasetIds, en \in BOOLEAN, schedule \in Schedules :
            StartCreateDatasetWith(p, d, en, schedule)
       \/ CrtProp(p)
       \/ CrtIndex(p)
       \/ \E d \in DatasetIds, en \in BOOLEAN, schedule \in Schedules :
            StartUpdateWith(p, d, en, schedule)
       \/ UpdRead(p)
       \/ UpdWrite(p)
       \/ UpdRemove(p)
       \/ CreateTriggerSteps(p)
    /\ UNCHANGED <<succ, hist>>

SpecStore == InitStoreOps /\ [][NextStore]_vars

\* ---- SpecEnable: enabling, disabling and repairing schedules
InitEnable ==
  /\ \E en \in [DatasetIds -> BOOLEAN] : InitStore(DatasetIds, en, MaxEnableOps)
  /\ sheet = TRUE

NextEnable ==
  \E p \in Procs :
    /\ MayStep(p)
    /\ \/ UpdateSteps(p)
       \/ \E d \in DatasetIds : StartCreateTrigger(p, d)
       \/ CreateTriggerSteps(p)
       \/ DeleteSteps(p)
       \/ Cleanup(p)
    /\ Track(p)
    /\ UNCHANGED hist

SpecEnable == InitEnable /\ [][NextEnable]_vars

\* ---- SpecRetry: one logical request against any sequence of responses
InitRetry ==
  /\ InitStore({}, [d \in DatasetIds |-> FALSE], 0)
  /\ sheet = FALSE

RetrySteps ==
  \/ \E fn \in {"fetchWithRetry", "qboFetch_"} : StartRequest(fn)
  \/ FwrAttempt
  \/ FwrExhausted
  \/ QboAttempt

NextRetry == RetrySteps /\ UNCHANGED hist

SpecRetry == InitRetry /\ [][NextRetry]_vars

\* ---- SpecTrace: SpecRetry with the responses and sleeps of the request recorded
\* the capped exponential delay of the sleep that follows attempt 'attempt'
ExpDelay(fn, attempt) ==
  IF fn = "fetchWithRetry" THEN Min(fwrSleepCapMs, Pow2(attempt) * fwrBaseDelayMs)
  ELSE Min(qboDelayCapMs, Pow2(attempt) * qboBaseDelayMs)

TrackRequest ==
  hist' =
    IF rq.state = "idle" THEN Hist0
    ELSE LET got == rq'.calls > rq.calls
             sleeps == rq'.sleeps > rq.sleeps
         IN [first |-> IF got /\ rq.calls = 0 THEN rq'.last ELSE hist.first,
             second |-> IF got /\ rq.calls = 1 THEN rq'.last ELSE hist.second,
             n429 |-> hist.n429 + (IF got /\ rq'.last = 429 THEN 1 ELSE 0),
             slept |-> hist.slept + (IF sleeps THEN rq'.wait ELSE 0),
             expSum |-> hist.expSum + (IF sleeps THEN ExpDelay(rq.fn, rq.attempt) ELSE 0)]

NextTrace == RetrySteps /\ TrackRequest

SpecTrace == InitRetry /\ [][NextTrace]_vars

\* ---- runStandardReportDataset / runQueryDataset: the schemaHash of a run
\* texts a column title or an entity key of a response may be
FieldNames == {"Id", "Name", "Id|Name"}
Headers == UNION {[1..n -> FieldNames] : n \in 0..MaxHeaderLen}
\* the rows under the first row: none, or one row of values
DataRows == {<<>>, <<<<"1">>>>, <<<<"2">>>>}
\* sheetData.data: no row at all, or a first row followed by data rows
HeadedDatas == {<<>>} \cup {<<h>> \o rows : h \in Headers, rows \in DataRows}

\* sheetData.data[0] || []
FirstRow(data) == IF Len(data) > 0 THEN data[1] ELSE <<>>

\* headers.join('|')
RECURSIVE Join(_)
Join(headers) ==
  IF Len(headers) = 0 THEN ""
  ELSE IF Len(headers) = 1 THEN headers[1]
  ELSE headers[1] \o "|" \o Join(Tail(headers))

\* Utilities.computeDigest(MD5, text) as hex text; the digest is taken to be
\* free of collisions on the texts of the model
ComputeDigest(text) == <<"MD5", text>>

GenerateSchemaHash(headers) == ComputeDigest(Join(headers))

\* a successful run records schemaHash of the first row of its sheet data
RecordSchemaHash(data) ==
  /\ sh.runs < 2
  /\ sh' = IF sh.runs = 0
           THEN [sh EXCEPT !.runs = 1, !.data1 = data, !.hash1 = GenerateSchemaHash(FirstRow(data))]
           ELSE [sh EXCEPT !.runs = 2, !.data2 = data, !.hash2 = GenerateSchemaHash(FirstRow(data))]
  /\ UNCHANGED <<storeVars, refresh, pc, loc, ops, succ, rq, pq, hist>>


\* ---- SpecPage: one runCustomQuery call against a live company
InitPage ==
  /\ InitStore({1}, [d \in DatasetIds |-> FALSE], 0)
  /\ sheet = TRUE

NextPage ==
  \/ \E parser \in Parsers, query \in Queries,
        startPosition \in 1..MaxStart, maxResults \in 1..MaxPageSize,
        fetchAll \in BOOLEAN, maxPages \in 1..MaxPages :
       StartQuery(parser, query, startPosition, maxResults, fetchAll, maxPages)
  \/ QueryPage

SpecPage == InitPage /\ [][NextPage]_vars

\* ---- SpecServer: one runCustomQuery call against a server that answers anything
NextServer ==
  \/ \E startPosition \in 1..MaxStart, maxResults \in 1..MaxPageSize,
        fetchAll \in BOOLEAN, maxPages \in 1..MaxPages :
       StartQuery("checked", [select |-> TRUE, from |-> "Customer"],
                  startPosition, maxResults, fetchAll, maxPages)
  \/ QueryPageAny

SpecServer == InitPage /\ [][NextServer]_vars

\* ---- SpecHash: two successful runs of one dataset, one after the other
InitHash ==
  /\ InitStore({1}, [d \in DatasetIds |-> FALSE], 0)
  /\ sheet = TRUE

NextHash == \E data \in HeadedDatas : RecordSchemaHash(data)

SpecHash == InitHash /\ [][NextHash]_vars

\* a started request keeps executing: UrlFetchApp.fetch and Utilities.sleep
\* return (or throw) after a bounded time
SpecRetryLive == SpecRetry /\ WF_vars(NextRetry)

\* ================================================================ claims
InRunPcs == {"run_start", "run_p10", "run_p20", "run_fetch", "run_p70", "run_clear",
             "run_setvalues", "run_p90", "run_complete", "upd_read", "upd_write", "run_fail"}

Scheduled(p) == loc[p].op = "scheduledDatasetRun"
InsideRunDataset(p) == Scheduled(p) /\ pc[p] \in InRunPcs
Returned(p, op) == pc[p] = "idle" /\ loc[p].op = op

\* C1 (SpecLock): of the overlapping scheduledDatasetRun executions at most
\* one is inside runDataset, and it holds the lock; an execution whose
\* tryLock failed returns without having called runDataset and without
\* having created a sheet or changed a cell.
C1_OneScheduledRunAtATime ==
  /\ Cardinality({p \in Procs : InsideRunDataset(p)}) <= 1
  /\ \A p \in Procs : InsideRunDataset(p) => lock = p
  /\ \A p \in Procs :
       Returned(p, "scheduledDatasetRun") /\ loc[p].result = "skipped"
         => ~loc[p].ranRunDataset /\ ~loc[p].touchedCells /\ ~loc[p].createdSheet /\ loc[p].job = 0

\* one execution is inside runDataset while the other was skipped
C1_Witness ==
  \E p, q \in Procs :
    /\ InsideRunDataset(p) /\ pc[p] = "run_setvalues"
    /\ Returned(q, "scheduledDatasetRun") /\ loc[q].result = "skipped"

\* C2 (Spec): a job record starts as 'running', and once it is stored as
\* 'completed' or 'failed' no later step changes its status.
C2_StatusChangesOnce ==
  [][\A j \in JobIds :
       /\ (~jobs[j].exists /\ jobs'[j].exists) => jobs'[j].status = "running"
       /\ (jobs[j].exists /\ jobs[j].status \in {"completed", "failed"})
            => jobs'[j].status = jobs[j].status]_vars

\* C3 (Spec): when runDataset has ended with the job 'failed' it changed no
\* cell and stored no dataset record; when it has ended with the job
\* 'completed' it stored the dataset record with the lastWrite of its write.
C3_AllOrNothing ==
  \A p \in Procs :
    Returned(p, "runDataset") /\ loc[p].job # 0 =>
      /\ jobs[loc[p].job].status \in {"completed", "failed"}
      /\ jobs[loc[p].job].status = "failed" => ~loc[p].touchedCells /\ ~loc[p].touchedDs
      /\ jobs[loc[p].job].status = "completed" => loc[p].touchedDs

LiveTriggersOf(d) == {t \in triggers : rev[t] = d}

TriggerInvariant ==
  /\ \A d \in DatasetIds : ds[d].exists /\ ds[d].enabled => Cardinality(LiveTriggersOf(d)) = 1
  /\ \A t \in triggers : rev[t] # 0 /\ ds[rev[t]].exists /\ ds[rev[t]].enabled

\* C4 (SpecSched): when cleanupOrphanedTriggers returns, no other execution
\* being under way, every stored dataset with an enabled schedule has
\* exactly one live trigger and every live trigger resolves through
\* trigger_<id> to a stored dataset whose schedule is enabled.
C4_CleanupRestoresInvariant ==
  [][\A p \in Procs :
       (/\ \A q \in Procs : pc[q] = "idle" /\ pc'[q] = "idle"
        /\ ops' # ops
        /\ loc'[p].op = "cleanupOrphanedTriggers"
        /\ \A q \in Procs \ {p} : loc'[q] = loc[q])
         => TriggerInvariant']_vars

\* C5 (SpecEnable): after two createScheduleTrigger calls for one dataset,
\* made one after the other, the dataset has exactly one live trigger:
\* QBO_Dataset_<id> names it (the second call's trigger) and its
\* trigger_<id> names the dataset; the first call's trigger and its
\* trigger_<id> entry are gone.
C5_EnableTwice ==
  succ.phase = "both" =>
    /\ Cardinality(LiveTriggersOf(succ.d)) = 1
    /\ fwd[succ.d] = succ.t2 /\ succ.t2 \in triggers /\ rev[succ.t2] = succ.d
    /\ succ.t1 # succ.t2 /\ succ.t1 \notin triggers /\ rev[succ.t1] = 0

\* C6 (SpecSched): when scheduledDatasetRun found the mapped dataset missing
\* or its schedule disabled, it has returned without calling runDataset,
\* the trigger that fired is not live and no mapping entry of it remains.
C6_OrphanRemoved ==
  \A p \in Procs :
    Returned(p, "scheduledDatasetRun") /\ loc[p].result = "orphan" =>
      /\ ~loc[p].ranRunDataset
      /\ loc[p].t \notin triggers
      /\ rev[loc[p].t] = 0
      /\ \A d \in DatasetIds : fwd[d] # loc[p].t

\* C7 (SpecLock): an execution that is not under way does not hold the lock;
\* the lock is held only between tryLock and the finally block of a
\* scheduledDatasetRun, whether runDataset returned or threw.
C7_LockReleased ==
  \A p \in Procs :
    /\ pc[p] = "idle" => lock # p
    /\ lock = p => Scheduled(p) /\ pc[p] \in InRunPcs \cup {"sdr_release"}

\* runDataset threw under the lock, and the lock is free after the return
C7_Witness ==
  \E p \in Procs :
    /\ Returned(p, "scheduledDatasetRun") /\ loc[p].result = "error_logged"
    /\ loc[p].ranRunDataset /\ loc[p].job # 0
    /\ lock = "free"

\* C8 (SpecRetry): one call of fetchWithRetry invokes service.refresh() at
\* most once.
C8_RefreshAtMostOnce == rq.fn = "fetchWithRetry" => rq.refreshes <= 1

Faulty(status) == status \in {0, 401, 429} \/ (status >= 500 /\ status < 600)

CallsWithinCeiling ==
  /\ rq.fn = "fetchWithRetry" =>
       /\ rq.calls <= 4
       /\ rq.state = "running" /\ rq.calls = 4 => ~ENABLED FwrAttempt
  /\ rq.fn = "qboFetch_" =>
       /\ rq.calls <= 6
       /\ rq.calls = 6 => rq.state # "running"
  /\ rq.state = "returned" => ~Faulty(rq.last)
  /\ rq.state = "thrown" /\ rq.fn = "fetchWithRetry" => rq.attempt >= fwrMaxAttempts /\ Faulty(rq.last)

\* C9 (SpecRetryLive): a logical request makes at most 4 (fetchWithRetry) or
\* 6 (qboFetch_) HTTP calls and no further call can be made after the last
\* of them; it never returns a 429, 5xx or 401 response or a fetch exception
\* as its result; and every started request ends, returning or throwing.
C9_AttemptCeiling ==
  /\ []CallsWithinCeiling
  /\ (rq.state = "running") ~> (rq.state \in {"returned", "thrown"})

\* four 401 responses in a row used up the attempts of fetchWithRetry
C9_Witness ==
  /\ rq.fn = "fetchWithRetry" /\ rq.state = "thrown"
  /\ rq.calls = 4 /\ rq.refreshes = 4

Checkpoints == <<0, 10, 20, 50, 70, 90, 100>>
NextCheckpoint(v) == IF v = 100 THEN 100 ELSE Checkpoints[1 + (CHOOSE i \in 1..7 : Checkpoints[i] = v)]

\* C10 (Spec): the progress stored in a job record never decreases: it
\* starts at 0, moves from one checkpoint to the next, and is 100 only in a
\* job stored as 'completed', also when the run fails on the way.
C10_ProgressMonotonic ==
  [][\A j \in JobIds :
       /\ (~jobs[j].exists /\ jobs'[j].exists) => jobs'[j].progress = 0
       /\ jobs[j].exists =>
            /\ jobs'[j].progress >= jobs[j].progress
            /\ jobs'[j].progress \in {jobs[j].progress, NextCheckpoint(jobs[j].progress)}
            /\ jobs'[j].progress = 100 => jobs'[j].status = "completed"]_vars

\* C11 (Spec): when writeDataToSheet throws the sizing error it has changed
\* nothing in the document: it created no sheet and it cleared or wrote no
\* cell, the previous lastWrite region included.
C11_SizingBeforeMutation ==
  \A p \in Procs :
    pc[p] = "run_fail" /\ loc[p].from = "sizing" =>
      ~loc[p].createdSheet /\ ~loc[p].touchedCells

\* the step with which the run of execution p ends successfully: its
\* updateDataset stores the lastWrite of the write
RunSucceeds(p) ==
  /\ pc[p] = "upd_write" /\ InRun(p)
  /\ pc'[p] \in {"idle", "sdr_release"}
  /\ ds'[loc[p].d] # ds[loc[p].d]

C12_PreviousRegionCleared ==
  [][\A p \in Procs :
       RunSucceeds(p) =>
         LET prev == ds[loc[p].d].lastWrite
             new == ds'[loc[p].d].lastWrite
         IN prev.valid =>
              \A g \in Region(prev.rr, prev.rc) \ Region(new.rows, new.cols) : cells'[g] = 0]_vars

\* the entities of the pages of a call, added up
RECURSIVE SumReturned(_)
SumReturned(pages) == IF pages = <<>> THEN 0 ELSE pages[1].returned + SumReturned(Tail(pages))

\* C14 (SpecPage): a runCustomQuery call with fetchAll returns as many
\* entities as the pages it fetched held together, and never more than the
\* totalCount the server reported.
C14_AggregateWithinTotal ==
  pq.state = "returned" /\ pq.fetchAll =>
    /\ pq.aggregated = SumReturned(pq.pages)
    /\ pq.reported => pq.aggregated <= pq.totalCount

\* a page of the call ends the paging as the specification words it
StopsAt(i) ==
  \/ pq.pages[i].returned < pq.pageSize
  \/ pq.pages[i].total # -1 /\ pq.pages[i].reached = pq.pages[i].total
  \/ i >= pq.maxPages

\* C15 (SpecPage): with fetchAll no page is requested after a page that
\* returned fewer entities than the page size, after a page that reached the
\* total the server reported, or after the maxPages-th page.
C15_NoRequestAfterStop ==
  pq.fetchAll => \A i \in 1..Len(pq.pages) : StopsAt(i) => pq.fetchedPages = i

\* every enabled dataset has exactly one live trigger, named by its
\* QBO_Dataset_<id> entry, and every live trigger resolves to an enabled dataset
Reconciled ==
  /\ \A d \in DatasetIds :
       ds[d].exists /\ ds[d].enabled =>
         Cardinality(LiveTriggersOf(d)) = 1 /\ fwd[d] \in LiveTriggersOf(d)
  /\ \A t \in triggers : rev[t] # 0 /\ ds[rev[t]].exists /\ ds[rev[t]].enabled

\* the step of execution p is a call of cleanupOrphanedTriggers
CleanupStep(p) ==
  /\ pc[p] = "idle" /\ pc'[p] = "idle"
  /\ ops' # ops
  /\ loc'[p].op = "cleanupOrphanedTriggers"
  /\ \A q \in Procs \ {p} : loc'[q] = loc[q] /\ pc'[q] = pc[q]

\* C16 (SpecEnable): called in a state where every enabled dataset has
\* exactly one live trigger with consistent mapping entries and no live
\* trigger is orphaned, cleanupOrphanedTriggers creates and deletes no
\* trigger, changes no mapping entry and returns removed = 0, repaired = 0.
C16_CleanupNoOp ==
  [][(\E p \in Procs : CleanupStep(p)) /\ Reconciled =>
       /\ triggers' = triggers /\ nextTrig' = nextTrig
       /\ fwd' = fwd /\ rev' = rev
       /\ \E p \in Procs : CleanupStep(p) /\ loc'[p].removed = 0 /\ loc'[p].repaired = 0]_vars

\* the step of execution p is the return of a call of 'op'
Returns(p, op) == pc[p] # "idle" /\ pc'[p] = "idle" /\ loc'[p].op = op

HasMappedTrigger(d) == \E t \in triggers : fwd[d] = t /\ rev[t] = d

\* C17 (SpecSeq): when createDataset, updateDataset or deleteDataset returns
\* without an error, the dataset of the call has a live trigger with both
\* mapping entries exactly if it is stored with schedule.enabled = true.
C17_TriggerIffEnabled ==
  [][\A p \in Procs :
       (\E op \in {"createDataset", "updateDataset", "deleteDataset"} : Returns(p, op))
         /\ loc'[p].result = "returned" =>
           LET d == loc'[p].d IN
           (\E t \in triggers' : fwd'[d] = t /\ rev'[t] = d) <=> (ds'[d].exists /\ ds'[d].enabled)]_vars

Quiescent == \A p \in Procs : pc[p] = "idle"

\* C18 (SpecSeq): after any sequence of calls made one after the other,
\* QBO_Dataset_<d> = t exactly if trigger_<t> = d, and every mapped trigger
\* id is the id of a live trigger.
C18_MappingsAgree ==
  Quiescent =>
    /\ \A d \in DatasetIds, t \in TriggerIds : fwd[d] = t <=> rev[t] = d
    /\ \A d \in DatasetIds : fwd[d] # 0 => fwd[d] \in triggers
    /\ \A t \in TriggerIds : rev[t] # 0 => t \in triggers

\* a trigger made by createScheduleTrigger is mapped both ways and a
\* testScheduledRun of its dataset has run and returned
C18_Witness ==
  /\ Quiescent
  /\ Returned("A", "testScheduledRun") /\ loc["A"].result = "ran"
  /\ \E d \in DatasetIds : fwd[d] > NumDatasets /\ rev[fwd[d]] = d /\ fwd[d] \in triggers

\* C19 (SpecTrace): in qboFetch_ a 401 on the first attempt is answered with
\* one svc.refresh() and one further activation for the same request, and
\* no later response is answered with a refresh; when the response to the
\* retry is a 401 as well, svc.reset() is called once and the error is
\* thrown after exactly two HTTP attempts.
C19_RefreshOnceThenTerminal ==
  rq.fn = "qboFetch_" /\ hist.first = 401 =>
    /\ rq.refreshes = 1
    /\ rq.attempt >= 2
    /\ rq.calls = 1 /\ rq.state # "running" => rq.state = "thrown" /\ rq.resets = 0
    /\ hist.second = 401 =>
         rq.state = "thrown" /\ rq.resets = 1 /\ rq.calls = 2 /\ rq.attempt = 2 /\ rq.sleeps = 0

\* both attempts were answered with 401 and the request has ended
C19_Witness ==
  /\ rq.fn = "qboFetch_" /\ hist.first = 401 /\ hist.second = 401
  /\ rq.state = "thrown" /\ rq.refreshes = 1 /\ rq.resets = 1

\* the service answered 429 three times and then 200
ThreeTimes429Then200 == rq.calls = 4 /\ hist.n429 = 3 /\ rq.last = 200

\* C20 (SpecTrace): when the service answers 429 three times and then 200,
\* fetchWithRetry and qboFetch_ return the 200 response after exactly 4 HTTP
\* attempts and exactly 3 sleeps, and the time slept is at most the sum of
\* the capped exponential delays of those sleeps.
C20_ThreeRetriesThenSuccess ==
  ThreeTimes429Then200 =>
    /\ rq.state = "returned"
    /\ rq.sleeps = 3
    /\ hist.slept <= hist.expSum

\* the ceiling each function puts on a delay
DelayCap(fn) == IF fn = "fetchWithRetry" THEN fwrSleepCapMs ELSE qboDelayCapMs

\* C21 (SpecRetry): across the retries of one logical request the delay of a
\* sleep, without its jitter, is at least the delay of the sleep before it,
\* and no delay exceeds the cap of the function (60000 ms in fetchWithRetry,
\* 30000 ms in qboFetch_).
C21_BackoffMonotoneCapped ==
  [][rq'.sleeps > rq.sleeps =>
       /\ rq'.delay <= DelayCap(rq.fn)
       /\ rq.sleeps > 0 => rq'.delay >= rq.delay]_vars

\* a 4xx status other than 401 and 429
OtherClientError(status) == status >= 400 /\ status < 500 /\ status \notin {401, 429}

\* C22 (SpecRetry): the HTTP call answered with a 4xx status other than 401
\* and 429 is the last call of the request: the request ends at that step
\* with no sleep, no token refresh and no reset, after exactly one call when
\* this was the first response, and the error reported carries the fault
\* message of the response body (qboFetch_ throws it; fetchWithRetry returns
\* the response, from which parseQboError takes it).
C22_ClientErrorNotRetried ==
  [][rq'.calls > rq.calls /\ OtherClientError(rq'.last) =>
       /\ rq'.state \in {"returned", "thrown"}
       /\ rq.calls = 0 => rq'.calls = 1 /\ rq'.sleeps = 0 /\ rq'.refreshes = 0
       /\ rq'.sleeps = rq.sleeps /\ rq'.refreshes = rq.refreshes /\ rq'.resets = rq.resets
       /\ rq.fn = "qboFetch_" =>
            /\ rq'.state = "thrown" /\ rq'.message.status = rq'.last
            /\ rq'.body = "fault" => rq'.message.text = "Fault.Error.Message"
       /\ rq.fn = "fetchWithRetry" =>
            /\ rq'.state = "returned"
            /\ rq'.body = "fault" => ParseQboError(rq'.last, rq'.body) = "Fault.Error.Message"]_vars

\* qboFetch_ met a 400 with a fault body on its first call and threw
C22_Witness ==
  /\ rq.fn = "qboFetch_" /\ rq.state = "thrown"
  /\ rq.calls = 1 /\ rq.last = 400 /\ rq.body = "fault"
  /\ rq.sleeps = 0 /\ rq.refreshes = 0
  /\ rq.message.text = "Fault.Error.Message"

\* C23 (SpecPage): for a query whose FROM entity is not in the allow-list,
\* parseQuery returns valid: false in each of its variants, runCustomQuery
\* throws without having issued a page request, and the validation of
\* createDataset and updateDataset rejects the dataset.
C23_UnlistedEntityRejected ==
  pq.state # "idle" /\ pq.query.from \notin QUERYABLE_ENTITIES =>
    /\ \A parser \in Parsers : ~ParseQuery(parser, pq.query).valid
    /\ pq.state = "threw" /\ pq.fetchedPages = 0
    /\ ~ValidateDataset(pq.parser, pq.query)

\* C24 (SpecSched): scheduledDatasetRun always returns to the host normally,
\* and when it met a failure (no dataset id stored for the trigger that
\* fired, or runDataset throwing) it has logged 'scheduled_run_error' before
\* it returned.
C24_ErrorsLoggedNotPropagated ==
  \A p \in Procs :
    Returned(p, "scheduledDatasetRun") =>
      /\ loc[p].result # "threw"
      /\ loc[p].d = 0 \/ loc[p].err => loc[p].result = "error_logged"

Manual(p) == loc[p].op = "runDataset"

\* C25 (SpecRace): a manual run never holds the lock and none of its steps
\* changes it, a manual run that is about to start proceeds whoever holds the
\* lock, and a run that reaches the write fills the region of its table
\* whatever the other execution is doing.
C25_ManualRunIgnoresLock ==
  /\ [](\A p \in Procs : Manual(p) => lock # p)
  /\ [](\A p \in Procs : Manual(p) /\ pc[p] = "run_start" /\ MayStep(p) => ENABLED RunStart(p))
  /\ [][\A p \in Procs :
          /\ Manual(p) /\ pc'[p] # pc[p] => lock' = lock
          /\ pc[p] = "run_setvalues" /\ pc'[p] = "run_p90" =>
               \A g \in Region(loc[p].table.rows, loc[p].table.cols) : cells'[g] = loc[p].job]_vars

\* a manual run and a scheduled run that holds the lock are both between
\* fetch and write for dataset 1, each about to write a table of its own
C25_Witness ==
  \E p, q \in Procs :
    /\ Manual(p) /\ Scheduled(q) /\ lock = q
    /\ loc[p].d = 1 /\ loc[q].d = 1
    /\ pc[p] = "run_setvalues" /\ pc[q] = "run_setvalues"
    /\ loc[p].table.rows > 0 /\ loc[q].table.rows > 0

\* C26 (SpecWrite): when a run of a dataset with a target.namedRange
\* succeeds, the named range exists and covers exactly the range of the
\* lastWrite the run stores, also when the table was empty or smaller than
\* that of the run before.
C26_NamedRangeFollowsWrite ==
  [][\A p \in Procs :
       RunSucceeds(p) =>
         LET lw == ds'[loc[p].d].lastWrite IN
         /\ named' # NoNamedRange
         /\ Region(named'.rr, named'.rc) = Region(lw.rr, lw.rc)]_vars

\* the step of execution p stores the record of dataset d for 'op'
Stores(p, op, d) ==
  /\ loc[p].op = op /\ loc[p].d = d
  /\ pc[p] = (IF op = "createDataset" THEN "crt_prop" ELSE "upd_write")
  /\ pc'[p] # pc[p]

\* C27 (SpecSeq): over calls made one after the other, the stored version of
\* a dataset never decreases, and every store of createDataset or
\* updateDataset changes it: createDataset stores 1, updateDataset the
\* stored version + 1.
C27_VersionGrows ==
  [][\A d \in DatasetIds :
       /\ ds[d].exists /\ ds'[d].exists => ds'[d].version >= ds[d].version
       /\ \A p \in Procs :
            /\ Stores(p, "createDataset", d) =>
                 ds'[d].version = 1 /\ (ds[d].exists => ds'[d].version # ds[d].version)
            /\ Stores(p, "updateDataset", d) => ds'[d].version = ds[d].version + 1]_vars

\* C28 (SpecStore): every stored dataset record has a schedule that
\* validateSchedule accepts: freq is hourly, daily, weekly or monthly, and
\* timeOfDay is given unless freq is hourly.
C28_StoredScheduleValid ==
  \A d \in DatasetIds : ds[d].exists => ValidateSchedule(ds[d].schedule)

\* C29: for two successful runs of one dataset the recorded schemaHash values
\* are equal exactly when the first (header) rows of their sheet data are
\* identical; a change in the data rows alone leaves the hash as it was
C29_SchemaHashIffSameHeader ==
  sh.runs = 2 =>
    /\ sh.hash1 = sh.hash2 <=> FirstRow(sh.data1) = FirstRow(sh.data2)
    /\ FirstRow(sh.data1) = FirstRow(sh.data2) /\ sh.data1 # sh.data2 => sh.hash1 = sh.hash2

\* the positions of a run inside and after writeDataToSheet
WritePcs == {"run_clear", "run_setvalues", "run_p90", "run_complete"}
\* the run of p has fetched and converted: it holds a table
Fetched(p) == loc[p].table # NoTable /\ loc[p].table.ok
\* the run of p is in the catch of runDataset because its fetch failed
FetchFailed(p) == InRun(p) /\ pc[p] = "run_fail" /\ loc[p].table = NoTable

\* C30 (SpecRace): within one runDataset the order is fetch, transform,
\* write: a run is inside or past writeDataToSheet only with a fetched and
\* converted table, only such a run changes the sheet, the cells or the named
\* range, and it stores a lastWrite only after its write; a run whose fetch
\* fails goes to the catch without a table, its job is stored as 'failed',
\* and it has neither touched the sheet nor the dataset record
C30_FetchTransformWrite ==
  /\ [](\A p \in Procs : InRun(p) /\ pc[p] \in WritePcs => Fetched(p))
  /\ [][\A p \in Procs : InRun(p) /\ pc'[p] # pc[p] =>
          /\ cells' # cells \/ sheet' # sheet \/ named' # named =>
               Fetched(p) /\ pc[p] \in {"run_clear", "run_setvalues"}
          /\ ds' # ds => Fetched(p) /\ loc[p].writeResult # NoWriteResult /\ loc[p].lastWrite.valid
          /\ pc[p] = "run_fetch" /\ pc'[p] = "run_fail" =>
               /\ loc'[p].table = NoTable
               /\ cells' = cells /\ sheet' = sheet /\ named' = named /\ ds' = ds
          /\ FetchFailed(p) =>
               /\ jobs'[loc[p].job].exists /\ jobs'[loc[p].job].status = "failed"
               /\ loc'[p].result = "threw"
               /\ ~loc'[p].touchedCells /\ ~loc'[p].createdSheet /\ ~loc'[p].touchedDs
               /\ cells' = cells /\ sheet' = sheet /\ named' = named /\ ds' = ds
    ]_vars

\* a manual run whose fetch failed has ended: its job is stored as 'failed'
\* while another run of the same dataset has written its table
C30_Witness ==
  \E p \in Procs, q \in Procs :
    /\ p # q
    /\ Returned(p, "runDataset") /\ loc[p].result = "threw" /\ loc[p].job # 0
    /\ jobs[loc[p].job].status = "failed"
    /\ ~loc[p].touchedCells /\ ~loc[p].touchedDs
    /\ Returned(q, "runDataset") /\ loc[q].result = "returned" /\ loc[q].touchedCells
    /\ ds[1].lastWrite.valid

\* the sub-job has ended
Ended(subjob) == subjob.status \in {"completed", "error"}
\* p is inside the loop of processRefreshJob, a called runDataset included
InRefreshLoop(p) ==
  loc[p].op = "refreshAllDatasets" /\ pc[p] \notin {"idle", "rad_list", "prj_read", "prj_store"}

\* C31 (SpecRefresh): processRefreshJob takes the sub-jobs one at a time in
\* list order: while it is in its loop every sub-job before the current one
\* has ended, every later one is 'queued' and at most the current one is
\* 'running'; a sub-job whose dataset exists is run whatever happened to the
\* earlier ones; when it returns every stored sub-job is 'completed' or
\* 'error' and the job is 'completed' exactly when all are, otherwise 'error'
C31_RefreshOneAtATime ==
  /\ [](\A p \in Procs : InRefreshLoop(p) =>
          LET subjobs == loc[p].rjobs
              i == loc[p].ri
          IN /\ \A j \in 1..Len(subjobs) :
                  /\ j < i => Ended(subjobs[j])
                  /\ j > i => subjobs[j].status = "queued"
                  /\ subjobs[j].status = "running" => j = i /\ pc[p] # "prj_get"
             /\ pc[p] # "prj_get" => i <= Len(subjobs) /\ subjobs[i].status = "running"
                                     /\ loc[p].d = subjobs[i].datasetId)
  /\ [](\A p \in Procs : Returned(p, "refreshAllDatasets") /\ refresh.exists =>
          /\ \A j \in 1..Len(refresh.jobs) : Ended(refresh.jobs[j])
          /\ refresh.status = "completed" <=>
               \A j \in 1..Len(refresh.jobs) : refresh.jobs[j].status = "completed"
          /\ refresh.status \in {"completed", "error"})
  /\ [][\A p \in Procs :
          pc[p] = "prj_get" /\ loc'[p] # loc[p] =>
            LET i == loc[p].ri IN
            i <= Len(loc[p].rjobs) =>
              /\ ds[loc[p].rjobs[i].datasetId].exists => pc'[p] = "run_start"
              /\ ~ds[loc[p].rjobs[i].datasetId].exists =>
                   loc'[p].rjobs[i].status = "error" /\ loc'[p].ri = i + 1 /\ pc'[p] = "prj_get"
    ]_vars

\* a refresh of two datasets has returned: the run of the first failed, the
\* second was run all the same and completed, and the job is 'error'
C31_Witness ==
  \E p \in Procs :
    /\ Returned(p, "refreshAllDatasets") /\ refresh.exists
    /\ Len(refresh.jobs) = 2
    /\ refresh.jobs[1].status = "error" /\ refresh.jobs[2].status = "completed"
    /\ refresh.status = "error"
    /\ jobs[1].status = "failed" /\ jobs[2].status = "completed"

\* C32 (SpecServer): whatever the server answers, runCustomQuery makes at
\* most maxPages page requests (it is past its loop once fetchedPages has
\* reached maxPages), and every page request after the first asks for a start
\* position strictly greater than the one before
C32_PagesBoundedAndAdvancing ==
  /\ [](pq.state \in {"running", "returned", "failed"} =>
          /\ pq.fetchedPages <= pq.maxPages
          /\ pq.state = "running" => pq.fetchedPages < pq.maxPages
          /\ pq.state = "running" /\ pq.fetchedPages > 0 => pq.fetchAll)
  /\ [][pq.state = "running" /\ pq'.state = "running" =>
          pq'.fetchedPages = pq.fetchedPages + 1 /\ pq'.currentStart > pq.currentStart]_vars

\* the ceiling stops a loop the server would keep going: maxPages full pages
\* were fetched, each from a greater start, and the last answer still says more
C32_Witness ==
  /\ pq.state = "returned" /\ pq.fetchAll /\ pq.hasMore
  /\ pq.maxPages = MaxPages /\ pq.fetchedPages = MaxPages
  /\ pq.currentStart >= pq.pageSize * (MaxPages - 1)
  /\ ~pq.reported

\* C33 (SpecRetry): qboFetch_ resets the OAuth service (and reports that the
\* authorization expired) only in a logical request in which it called
\* svc.refresh() before, whatever the sequence of responses
C33_ResetOnlyAfterRefresh ==
  rq.fn = "qboFetch_" /\ rq.resets > 0 => rq.refreshes > 0 /\ rq.message.expired

\* C34 (SpecSched): when the runDataset called by a scheduled run starts its
\* job, the dataset is stored and its schedule is enabled, even if it was
\* disabled or deleted while scheduledDatasetRun was on its way to the lock
C34_ScheduledRunOnlyIfEnabled ==
  [][\A p \in Procs :
       Scheduled(p) /\ pc[p] = "run_start" /\ pc'[p] = "run_p10" =>
         ds[loc[p].d].exists /\ ds[loc[p].d].enabled]_vars

\* the cells that hold output of a run
OutputCells == {g \in Grid : cells[g] # 0}
\* the region the stored lastWrite of dataset d records (none: no cell)
RecordedRegion(d) ==
  IF ds[d].lastWrite.valid THEN Region(ds[d].lastWrite.rr, ds[d].lastWrite.rc) ELSE {}

\* C35 (SpecStale): whenever no run is under way, every cell that holds
\* output of the dataset lies inside the region of its stored lastWrite, after
\* any sequence of successful and failed runs
C35_OutputInsideLastWrite ==
  (\A p \in Procs : pc[p] = "idle") /\ ds[1].exists => OutputCells \subseteq RecordedRegion(1)

\* C36 (SpecStore): when updateDataset throws, the stored record of the
\* dataset is the one the call read at its start, and a dataset whose schedule
\* was off before the call has no mapping entry after it
C36_FailedUpdateChangesNothing ==
  [][\A p \in Procs :
       loc[p].op = "updateDataset" /\ pc[p] # "idle" /\ pc'[p] = "idle" /\ loc'[p].result = "threw" =>
         /\ ds'[loc[p].d] = loc[p].existing
         /\ ~loc[p].existing.enabled => fwd'[loc[p].d] = 0]_vars

\* the ids with a stored dataset_<id> record
StoredIds == {d \in DatasetIds : ds[d].exists}

\* C37 (SpecIndex): once every createDataset and deleteDataset execution has
\* ended, datasets_index holds exactly the ids with a stored record, each once
C37_IndexMatchesStore ==
  (\A p \in Procs : pc[p] = "idle") =>
    /\ {idx[i] : i \in 1..Len(idx)} = StoredIds
    /\ \A i, j \in 1..Len(idx) : idx[i] = idx[j] => i = j

\* C38 (SpecStore): once every updateDataset execution has ended, the live
\* trigger of a dataset whose stored schedule is enabled has the recurrence
\* derived from that stored schedule, also after an update that changes freq
\* or timeOfDay while enabled stays true
C38_TriggerMatchesStoredSchedule ==
  (\A p \in Procs : pc[p] = "idle") =>
    \A d \in DatasetIds :
      ds[d].exists /\ ds[d].enabled /\ fwd[d] # 0 /\ fwd[d] \in triggers =>
        recurrence[fwd[d]] = Recurrence(ds[d].schedule)

\* a fire at its lookup that has no trigger id or finds no trigger_<id> entry
UnmappedFire(p) ==
  /\ loc[p].op = "scheduledDatasetRun"
  /\ pc[p] = "sdr_resolve"
  /\ loc[p].t = 0 \/ rev[loc[p].t] = 0

\* C39 (SpecFire): a scheduledDatasetRun fire without a triggerUid, or whose
\* trigger id has no trigger_<id> entry, returns at once and changes nothing:
\* no run, no lock, no property written or removed, no trigger deleted, so a
\* live unmapped trigger stays live
C39_UnmappedFireChangesNothing ==
  [][\A p \in Procs :
       UnmappedFire(p) /\ pc'[p] # pc[p] =>
         /\ pc'[p] = "idle"
         /\ storeVars' = storeVars
         /\ ~loc'[p].ranRunDataset
         /\ lock' # p
         /\ loc[p].t \in triggers => loc[p].t \in triggers']_vars

C39_Witness ==
  \E p \in Procs :
    /\ pc[p] = "idle" /\ loc[p].op = "scheduledDatasetRun" /\ loc[p].result = "unmapped"
    /\ loc[p].t \in triggers /\ rev[loc[p].t] = 0

====
